---- MODULE Spec2Model ----
(***************************************************************************)
(* Edge attendance coordinator: registration with the student_sequence     *)
(* counter, the background sync worker, the per-device capture loop and    *)
(* the operator decision arbiter.  The local store (MongoDB through        *)
(* beanie), the remote backend and the cooperative scheduler are modelled  *)
(* at the granularity of the awaits of the handlers.                       *)
(***************************************************************************)
EXTENDS Integers, Sequences, FiniteSets, TLC

(* ------------------------------------------------------------------ *)
(* Program constants                                                    *)
(* ------------------------------------------------------------------ *)

\* value of the student_sequence row created by the first peek
InitialCounterValue == 10018

\* the worker retries failed rows with sync_attempts < 3
MaxSyncAttempts == 3

(* ------------------------------------------------------------------ *)
(* Bounds of the model                                                  *)
(* ------------------------------------------------------------------ *)

\* registrations started in one behaviour
MaxRegistrations == 3

\* width of the window of uids above InitialCounterValue that the remote
\* allocator and the init-counter operator may name
MaxNewUids == 2

\* students registered before the sync worker is observed
MaxInitStudents == 1

\* captures recorded for a student before the sync worker is observed
MaxInitDays == 1

\* swipes captured in one behaviour
MaxCaptures == 2

\* verdicts sent by the operator in one behaviour
MaxVerdicts == 2

\* seconds the wall clock advances in one behaviour
MaxTime == 2

Reqs == {1, 2}

\* uids the devices can report: enrolled students, known locally or not
CaptureUids == (InitialCounterValue + 1)..(InitialCounterValue + MaxNewUids)

\* the fingerprint devices, one capture task each
Devices == {1, 2}

\* slots for verdicts in flight
Verdicts == {1, 2}

\* websockets of operator consoles, and the coroutines that broadcast
Sockets == {1, 2}
Callers == {1, 2}

\* broadcasts per caller
MaxBroadcasts == 2

\* direct calls of the counter functions in one run
MaxCalls == 4

RemoteUids == (InitialCounterValue + 1)..(InitialCounterValue + MaxNewUids)

InitValues == InitialCounterValue..(InitialCounterValue + MaxNewUids)

VARIABLES
    counter,        \* counters collection: << >> (no row) or <<value>>
    students,       \* students collection: set of documents
    missing,        \* missing_students collection: set of documents
    nextId,         \* next document _id the store hands out
    remoteUp,       \* whether the remote backend answers at this moment
    remoteStudents, \* uids that exist on the remote backend
    remoteCreated,  \* uids of the POST /students/ that created a record, in order
    reg,            \* request slot -> locals of register_student_with_fingerprint
    regCount,       \* registrations started so far
    sync,           \* locals of sync_missing_students_worker
    syncPosts,      \* uids the worker has sent in a POST /students/, in order
    cap,            \* device -> locals of capture_from_device
    capCount,       \* swipes captured so far
    sessions,       \* fingerprint_sessions collection: set of documents
    vd,             \* verdict slot -> locals of process_assistant_decision
    vdCount,        \* verdicts received so far
    pending,        \* pending_decisions: set of entries with distinct ids
    broadcasts,     \* messages handed to manager.broadcast
    approvedPosts,  \* decision ids sent with assistant_approved, in order
    now,            \* wall clock, in seconds
    isRunning,      \* device_manager.is_running
    captureTasks,   \* keys of device_manager.capture_tasks
    devStatus,      \* device -> DeviceInfo.status
    devConn,        \* device -> who opened DeviceInfo.connection, or "none"
    stop,           \* locals of stop_all_capture_tasks
    activeConnections, \* manager.active_connections: list of websockets
    sockets,        \* websocket -> its state and the messages it was sent
    bc,             \* caller -> locals of ConnectionManager.broadcast
    lastCall,       \* the last direct call of a counter function and its answer
    is_attendance_running,  \* the flag of the single-device fallback capture
    attendance_task \* its task: "none", "created", "listen" or "done"

storeVars == <<counter, students, missing, nextId>>
remoteVars == <<remoteUp, remoteStudents, remoteCreated>>
regVars == <<reg, regCount>>
syncVars == <<sync, syncPosts>>
attVars == <<cap, capCount, sessions, vd, vdCount, pending, broadcasts, approvedPosts, now>>
devVars == <<isRunning, captureTasks, devStatus, devConn, stop>>
singleVars == <<is_attendance_running, attendance_task>>
wsVars == <<activeConnections, sockets, bc>>
vars == <<counter, students, missing, nextId, remoteUp, remoteStudents,
          remoteCreated, reg, regCount, sync, syncPosts, cap, capCount, sessions, vd,
          vdCount, pending, broadcasts, approvedPosts, now, isRunning,
          captureTasks, devStatus, devConn, stop, activeConnections, sockets,
          bc, lastCall, is_attendance_running, attendance_task>>

(* ------------------------------------------------------------------ *)
(* Local store                                                          *)
(* ------------------------------------------------------------------ *)

EmptyAttendance == {}

\* Student(uid=..., student_id=str(student_id), ...): attendance defaults to
\* the empty dict
NewStudent(id, uid, student_id) ==
    [id |-> id, uid |-> uid, student_id |-> student_id,
     attendance |-> EmptyAttendance]

\* MissingStudent(uid=..., student_id=str(student_id), ...): sync_status defaults
\* to pending, sync_attempts to 0
NewMissingStudent(id, uid, student_id) ==
    [id |-> id, uid |-> uid, student_id |-> student_id,
     sync_status |-> "pending", sync_attempts |-> 0]

\* the value every counter operation sees: a missing row acts as 10018
CounterValue == IF counter = << >> THEN InitialCounterValue ELSE counter[1]

\* a peek that takes the id it returns, as get_next_student_id_offline does
PeekCounterAfterTaking(c) == IF c = << >> THEN <<InitialCounterValue>> ELSE <<c[1] + 1>>

\* peek_next_student_id_offline: creates the row at 10018 when absent, returns value + 1
PeekCounterAfter(c) == IF c = << >> THEN <<InitialCounterValue>> ELSE c
PeekUid(c) == PeekCounterAfter(c)[1] + 1

\* the student_id peek returns: str(next_id)
PeekStudentId(c) == ToString(PeekUid(c))

\* an increment that saves the value it read
IncrementFromSame(read) == IF read = << >> THEN <<InitialCounterValue>> ELSE read

\* increment_student_counter, applied to the row it read: inserts 10019 when it
\* found no row, else saves value + 1
IncrementFrom(read) == IF read = << >> THEN <<InitialCounterValue + 1>> ELSE <<read[1] + 1>>

\* a sync that stores the id the remote will hand out next
SyncCounterToNext(remote_uid) == <<remote_uid + 1>>

\* sync_local_counter_with_remote(remote_uid): the row holds remote_uid afterwards
SyncCounterTo(remote_uid) == <<remote_uid>>

\* initialize_student_counter(start_value): the row holds start_value afterwards
InitializeCounterTo(start_value) == <<start_value>>

(* ------------------------------------------------------------------ *)
(* Remote backend                                                       *)
(* ------------------------------------------------------------------ *)

\* POST /students/ creates a record only for a uid the remote does not hold
RemoteCreates(uid) == uid \notin remoteStudents

\* the student_id GET /students/next-ids returns with a uid: its string form
RemoteStudentId(uid) == ToString(uid)

\* answers of POST /students/ when the remote is reachable
RemotePostAnswers(uid) ==
    IF RemoteCreates(uid) THEN {"ok", "blacklist", "error"} ELSE {"error"}

(* ------------------------------------------------------------------ *)
(* Device registry: MultiDeviceManager                                  *)
(* ------------------------------------------------------------------ *)

\* todo: the tasks of capture_tasks the loop has not reached yet
IdleStop == [pc |-> "idle", todo |-> {}]

\* capture_tasks is iterated in the order the tasks were added: device order
FirstDevice(S) == CHOOSE d \in S : \A e \in S : d <= e

\* connect_device on every device of T, then disconnect_device on those that
\* answered (R): a device that answers gets a fresh connection in place of the
\* one it had and loses it again; one that does not answer is put in error and
\* keeps the connection it had
DevStatusAfterTouch(T, R) ==
    [d \in Devices |-> IF d \notin T THEN devStatus[d]
                       ELSE IF d \in R THEN "offline" ELSE "error"]

DevConnAfterTouch(T, R) ==
    [d \in Devices |-> IF d \in T \cap R THEN "none" ELSE devConn[d]]

\* enroll_fingerprint_multi_device tries the devices in order and returns at
\* the first one that enrolls (e); e = 0 when none does
EnrollTried(e) == IF e = 0 THEN Devices ELSE {d \in Devices : d <= e}

\* is_capture_running()
IsCaptureRunning == isRunning /\ captureTasks # {}

(* ------------------------------------------------------------------ *)
(* Registration: POST /students/register                                *)
(* ------------------------------------------------------------------ *)

IdleReq == [pc |-> "idle", online |-> FALSE, probe |-> FALSE, uid |-> 0,
            student_id |-> "", cnt |-> << >>, c0 |-> InitialCounterValue,
            id0 |-> 0, err |-> "none"]

\* multi-device enrollment, then the single-device fallback
EnrollmentSucceeds(multiOk, singleOk) == multiOk \/ singleOk

\* Step 1: the connectivity probe; probe keeps its answer, c0 and id0 record the
\* counter value and the next document _id the request met; err is the answer
\* of the remote that the HTTPException of step 4 carries
RegProbe(r) ==
    /\ reg[r].pc = "idle"
    /\ regCount < MaxRegistrations
    /\ regCount' = regCount + 1
    /\ reg' = [reg EXCEPT ![r] = [IdleReq EXCEPT
                  !.pc = IF remoteUp THEN "next_ids" ELSE "peek",
                  !.online = remoteUp,
                  !.probe = remoteUp,
                  !.c0 = CounterValue,
                  !.id0 = nextId]]
    /\ UNCHANGED <<storeVars, remoteVars, syncVars, attVars, wsVars, lastCall, singleVars, devVars>>

\* Step 2 online: GET /students/next-ids
RegNextIds(r) ==
    /\ reg[r].pc = "next_ids"
    /\ \/ /\ ~remoteUp    \* httpx.RequestError: fall back to offline mode
          /\ reg' = [reg EXCEPT ![r].online = FALSE, ![r].pc = "peek"]
       \/ /\ remoteUp     \* 200 with the remote's next uid
          /\ \E u \in RemoteUids \ remoteStudents :
                reg' = [reg EXCEPT ![r].uid = u,
                                   ![r].student_id = RemoteStudentId(u),
                                   ![r].pc = "sync_counter"]
       \/ /\ remoteUp     \* status != 200: HTTPException(500)
          /\ reg' = [reg EXCEPT ![r].pc = "error"]
    /\ UNCHANGED <<storeVars, remoteVars, regCount, syncVars, attVars, wsVars, lastCall, singleVars, devVars>>

\* sync_local_counter_with_remote(uid - 1), then Step 3 (enrollment, blocking)
RegSyncCounter(r) ==
    /\ reg[r].pc = "sync_counter"
    /\ counter' = SyncCounterTo(reg[r].uid - 1)
    /\ \E R \in SUBSET Devices, singleOk \in BOOLEAN : \E e \in R \cup {0} :
          /\ reg' = [reg EXCEPT ![r].pc =
                       IF EnrollmentSucceeds(e # 0, singleOk)
                       THEN "post_remote" ELSE "error"]
          /\ devStatus' = DevStatusAfterTouch(EnrollTried(e), R)
          /\ devConn' = DevConnAfterTouch(EnrollTried(e), R)
    /\ UNCHANGED <<students, missing, nextId, remoteVars, regCount, syncVars,
                   attVars, wsVars, lastCall, singleVars, isRunning, captureTasks, stop>>

\* Step 2 offline: peek_next_student_id_offline(), then Step 3 (enrollment)
RegPeek(r) ==
    /\ reg[r].pc = "peek"
    /\ counter' = PeekCounterAfter(counter)
    /\ \E R \in SUBSET Devices, singleOk \in BOOLEAN : \E e \in R \cup {0} :
          /\ reg' = [reg EXCEPT ![r].uid = PeekUid(counter),
                                ![r].student_id = PeekStudentId(counter),
                                ![r].pc = IF EnrollmentSucceeds(e # 0, singleOk)
                                          THEN "insert_student" ELSE "error"]
          /\ devStatus' = DevStatusAfterTouch(EnrollTried(e), R)
          /\ devConn' = DevConnAfterTouch(EnrollTried(e), R)
    /\ UNCHANGED <<students, missing, nextId, remoteVars, regCount, syncVars,
                   attVars, wsVars, lastCall, singleVars, isRunning, captureTasks, stop>>

\* a POST /students/ step that turns a transport failure into an error answer
RegPostRemoteNoFallback(r) ==
    /\ reg[r].pc = "post_remote"
    /\ \/ /\ ~remoteUp    \* transport failure: fall through to offline mode
          /\ reg' = [reg EXCEPT ![r].pc = "error"]
          /\ UNCHANGED <<remoteVars, devStatus, devConn>>
       \/ /\ remoteUp
          /\ \E answer \in RemotePostAnswers(reg[r].uid) :
                IF answer = "ok"
                THEN /\ remoteStudents' = remoteStudents \cup {reg[r].uid}
                     /\ remoteCreated' = Append(remoteCreated, reg[r].uid)
                     /\ reg' = [reg EXCEPT ![r].pc = "incr_read_online"]
                     /\ UNCHANGED <<remoteUp, devStatus, devConn>>
                ELSE \* an error answer: HTTPException; on a blacklist answer
                     \* delete_student_from_all_devices visits every device first
                     /\ reg' = [reg EXCEPT ![r].pc = "error", ![r].err = answer]
                     /\ \E R \in SUBSET Devices :
                           LET T == IF answer = "blacklist" THEN Devices ELSE {}
                           IN  /\ devStatus' = DevStatusAfterTouch(T, R)
                               /\ devConn' = DevConnAfterTouch(T, R)
                     /\ UNCHANGED remoteVars
    /\ UNCHANGED <<storeVars, regCount, syncVars, attVars, wsVars, lastCall, singleVars, isRunning,
                   captureTasks, stop>>

\* Step 4 online: POST /students/
RegPostRemote(r) ==
    /\ reg[r].pc = "post_remote"
    /\ \/ /\ ~remoteUp    \* transport failure: fall through to offline mode
          /\ reg' = [reg EXCEPT ![r].online = FALSE, ![r].pc = "insert_student"]
          /\ UNCHANGED <<remoteVars, devStatus, devConn>>
       \/ /\ remoteUp
          /\ \E answer \in RemotePostAnswers(reg[r].uid) :
                IF answer = "ok"
                THEN /\ remoteStudents' = remoteStudents \cup {reg[r].uid}
                     /\ remoteCreated' = Append(remoteCreated, reg[r].uid)
                     /\ reg' = [reg EXCEPT ![r].pc = "incr_read_online"]
                     /\ UNCHANGED <<remoteUp, devStatus, devConn>>
                ELSE \* an error answer: HTTPException; on a blacklist answer
                     \* delete_student_from_all_devices visits every device first
                     /\ reg' = [reg EXCEPT ![r].pc = "error", ![r].err = answer]
                     /\ \E R \in SUBSET Devices :
                           LET T == IF answer = "blacklist" THEN Devices ELSE {}
                           IN  /\ devStatus' = DevStatusAfterTouch(T, R)
                               /\ devConn' = DevConnAfterTouch(T, R)
                     /\ UNCHANGED remoteVars
    /\ UNCHANGED <<storeVars, regCount, syncVars, attVars, wsVars, lastCall, singleVars, isRunning,
                   captureTasks, stop>>

\* increment_student_counter: Counter.find_one
RegIncrRead(r) ==
    /\ reg[r].pc \in {"incr_read_online", "incr_read_offline"}
    /\ reg' = [reg EXCEPT ![r].cnt = counter,
                          ![r].pc = IF reg[r].pc = "incr_read_online"
                                    THEN "incr_write_online"
                                    ELSE "incr_write_offline"]
    /\ UNCHANGED <<storeVars, remoteVars, regCount, syncVars, attVars, wsVars, lastCall, singleVars, devVars>>

\* increment_student_counter: counter.insert() / counter.save()
RegIncrWrite(r) ==
    /\ reg[r].pc \in {"incr_write_online", "incr_write_offline"}
    /\ counter' = IncrementFrom(reg[r].cnt)
    /\ reg' = [reg EXCEPT ![r].pc = IF reg[r].pc = "incr_write_online"
                                    THEN "store_online" ELSE "done"]
    /\ UNCHANGED <<students, missing, nextId, remoteVars, regCount, syncVars, attVars, wsVars, lastCall, singleVars, devVars>>

\* online mode: local_student.insert(); a store failure is printed and swallowed
RegStoreOnline(r) ==
    /\ reg[r].pc = "store_online"
    /\ \E ok \in BOOLEAN :
          IF ok
          THEN /\ students' = students \cup {NewStudent(nextId, reg[r].uid, reg[r].student_id)}
               /\ nextId' = nextId + 1
          ELSE UNCHANGED <<students, nextId>>
    /\ reg' = [reg EXCEPT ![r].pc = "done"]
    /\ UNCHANGED <<counter, missing, remoteVars, regCount, syncVars, attVars, wsVars, lastCall, singleVars, devVars>>

\* offline mode: local_student.insert(); a store failure is HTTPException(500)
RegInsertStudent(r) ==
    /\ reg[r].pc = "insert_student"
    /\ \E ok \in BOOLEAN :
          IF ok
          THEN /\ students' = students \cup {NewStudent(nextId, reg[r].uid, reg[r].student_id)}
               /\ nextId' = nextId + 1
               /\ reg' = [reg EXCEPT ![r].pc = "insert_missing"]
          ELSE /\ reg' = [reg EXCEPT ![r].pc = "error"]
               /\ UNCHANGED <<students, nextId>>
    /\ UNCHANGED <<counter, missing, remoteVars, regCount, syncVars, attVars, wsVars, lastCall, singleVars, devVars>>

\* offline mode: missing_student.insert(); a store failure is HTTPException(500)
RegInsertMissing(r) ==
    /\ reg[r].pc = "insert_missing"
    /\ \E ok \in BOOLEAN :
          IF ok
          THEN /\ missing' = missing \cup {NewMissingStudent(nextId, reg[r].uid, reg[r].student_id)}
               /\ nextId' = nextId + 1
               /\ reg' = [reg EXCEPT ![r].pc = "incr_read_offline"]
          ELSE /\ reg' = [reg EXCEPT ![r].pc = "error"]
               /\ UNCHANGED <<missing, nextId>>
    /\ UNCHANGED <<counter, students, remoteVars, regCount, syncVars, attVars, wsVars, lastCall, singleVars, devVars>>

\* the response (or the HTTPException) has been returned to the caller
RegFinish(r) ==
    /\ reg[r].pc \in {"done", "error"}
    /\ reg' = [reg EXCEPT ![r] = IdleReq]
    /\ UNCHANGED <<storeVars, remoteVars, regCount, syncVars, attVars, wsVars, lastCall, singleVars, devVars>>

RegStep(r) ==
    \/ RegProbe(r)
    \/ RegNextIds(r)
    \/ RegSyncCounter(r)
    \/ RegPeek(r)
    \/ RegPostRemote(r)
    \/ RegIncrRead(r)
    \/ RegIncrWrite(r)
    \/ RegStoreOnline(r)
    \/ RegInsertStudent(r)
    \/ RegInsertMissing(r)
    \/ RegFinish(r)

\* no counter function has been called yet
NoCall == [n |-> 0, op |-> "none", arg |-> 0, uid |-> 0, student_id |-> "",
           prevOp |-> "none", prevArg |-> 0]

\* the record of call number n + 1
Called(op, arg, uid, student_id) ==
    [n |-> lastCall.n + 1, op |-> op, arg |-> arg, uid |-> uid,
     student_id |-> student_id, prevOp |-> lastCall.op, prevArg |-> lastCall.arg]

\* values handed to sync_local_counter_with_remote and initialize_student_counter
CounterArgs == {0} \cup InitValues

\* peek_next_student_id_offline(), called on its own
CounterPeek ==
    /\ lastCall.n < MaxCalls
    /\ counter' = PeekCounterAfter(counter)
    /\ lastCall' = Called("peek", 0, PeekUid(counter), PeekStudentId(counter))
    /\ UNCHANGED <<students, missing, nextId, remoteVars, regVars, syncVars,
                   attVars, wsVars, devVars, singleVars>>

\* increment_student_counter(), called on its own
CounterIncrement ==
    /\ lastCall.n < MaxCalls
    /\ counter' = IncrementFrom(counter)
    /\ lastCall' = Called("increment", 0, 0, "")
    /\ UNCHANGED <<students, missing, nextId, remoteVars, regVars, syncVars,
                   attVars, wsVars, devVars, singleVars>>

\* sync_local_counter_with_remote(v), called on its own
CounterSync(v) ==
    /\ lastCall.n < MaxCalls
    /\ counter' = SyncCounterTo(v)
    /\ lastCall' = Called("sync", v, 0, "")
    /\ UNCHANGED <<students, missing, nextId, remoteVars, regVars, syncVars,
                   attVars, wsVars, devVars, singleVars>>

\* initialize_student_counter(v), called on its own
CounterInitialize(v) ==
    /\ lastCall.n < MaxCalls
    /\ counter' = InitializeCounterTo(v)
    /\ lastCall' = Called("initialize", v, 0, "")
    /\ UNCHANGED <<students, missing, nextId, remoteVars, regVars, syncVars,
                   attVars, wsVars, devVars, singleVars>>

\* POST /students/init-counter?start_value=N
InitCounter ==
    /\ \E v \in InitValues : counter' = InitializeCounterTo(v)
    /\ UNCHANGED <<students, missing, nextId, remoteVars, regVars, syncVars, attVars, wsVars, lastCall, singleVars, devVars>>

\* the remote backend becomes reachable or unreachable
NetChange ==
    /\ remoteUp' = ~remoteUp
    /\ UNCHANGED <<storeVars, remoteStudents, remoteCreated, regVars, syncVars, attVars, wsVars, lastCall, singleVars, devVars>>

(* ------------------------------------------------------------------ *)
(* Attendance maps                                                      *)
(* ------------------------------------------------------------------ *)

\* The attendance dict of a Student is a set of entries with distinct keys.  The
\* key "day{n}" is (n, off = FALSE), the key "day{n}_offline" is (n, off = TRUE);
\* the value True is ValTrue, the offline value is a record.
ValTrue == [bool |-> TRUE]

OfflineValue(ts, dev) ==
    [status |-> TRUE, timestamp |-> ts, synced |-> FALSE, device |-> dev]

HasKey(att, n, off) == \E e \in att : e.n = n /\ e.off = off

\* att[key] = val
PutKey(att, n, off, val) ==
    {e \in att : ~(e.n = n /\ e.off = off)} \cup {[n |-> n, off |-> off, val |-> val]}

\* del att[key]
DelKey(att, n, off) == {e \in att : ~(e.n = n /\ e.off = off)}

\* document.save(): replace the stored document with this _id, or insert it
Upsert(coll, doc) == {d \in coll : d.id # doc.id} \cup {doc}

\* document.delete()
DeleteDoc(coll, doc) == {d \in coll : d.id # doc.id}

\* to_list(): the documents in _id order
RECURSIVE ToList(_)
ToList(S) ==
    IF S = {} THEN << >>
    ELSE LET first == CHOOSE x \in S : \A y \in S : x.id <= y.id
         IN  <<first>> \o ToList(S \ {first})

\* the items of a dict comprehension, in day order
RECURSIVE EntryList(_)
EntryList(S) ==
    IF S = {} THEN << >>
    ELSE LET first == CHOOSE x \in S : \A y \in S : x.n <= y.n
         IN  <<first>> \o EntryList(S \ {first})

(* ------------------------------------------------------------------ *)
(* Sync worker: sync_missing_students_worker                            *)
(* ------------------------------------------------------------------ *)

NoDoc == [id |-> 0, uid |-> 0, student_id |-> "", sync_status |-> "none",
          sync_attempts |-> 0]
NoStudent == [id |-> 0, uid |-> 0, student_id |-> "", attendance |-> {}]

\* found: the uids the existence check of the current pass answered 200 for
IdleSync == [pc |-> "probe", cands |-> << >>, cur |-> NoDoc,
             dq |-> << >>, dcur |-> NoStudent, dkeys |-> << >>, resp |-> "none",
             found |-> {}]

\* the uids found so far in the pass, after the answer to the check of uid
FoundAfter(found, uid, answer) == IF answer = "200" THEN found \cup {uid} ELSE found

\* a filter without the retry cap
SelectedNoCap(m) ==
    \/ m.sync_status = "pending"
    \/ m.sync_status = "failed"

\* the find() filter of the worker: pending, or failed with sync_attempts < 3
Selected(m) ==
    \/ m.sync_status = "pending"
    \/ m.sync_status = "failed" /\ m.sync_attempts < MaxSyncAttempts

\* answers of GET /students/{uid} when the remote is reachable
RemoteGetAnswers(uid) ==
    IF uid \in remoteStudents THEN {"200", "500"} ELSE {"404", "500"}

\* answers of POST /attendance/ when the remote is reachable
RemoteAttendanceAnswers == {"ok", "policy", "error"}

\* check_internet_connectivity(); offline: sleep 60 s and probe again
SyncProbe ==
    /\ sync.pc = "probe"
    /\ sync' = [sync EXCEPT !.pc = IF remoteUp THEN "query" ELSE "probe"]
    /\ UNCHANGED <<storeVars, remoteVars, regVars, syncPosts, attVars, wsVars, lastCall, singleVars, devVars>>

\* MissingStudent.find({...}).to_list()
SyncQuery ==
    /\ sync.pc = "query"
    /\ sync' = [sync EXCEPT !.cands = ToList({m \in missing : Selected(m)}),
                            !.pc = "loop"]
    /\ UNCHANGED <<storeVars, remoteVars, regVars, syncPosts, attVars, wsVars, lastCall, singleVars, devVars>>

\* next candidate: sync_status = syncing; student.save()
SyncMark ==
    /\ sync.pc = "loop"
    /\ sync.cands # << >>
    /\ LET doc == [Head(sync.cands) EXCEPT !.sync_status = "syncing"]
       IN  /\ missing' = Upsert(missing, doc)
           /\ sync' = [sync EXCEPT !.cur = doc, !.cands = Tail(sync.cands),
                                   !.pc = "get"]
    /\ UNCHANGED <<counter, students, nextId, remoteVars, regVars, syncPosts, attVars, wsVars, lastCall, singleVars, devVars>>

\* a worker whose existence check does not stop the POST
SyncGetNoCheck ==
    /\ sync.pc = "get"
    /\ \/ /\ ~remoteUp
          /\ sync' = [sync EXCEPT !.cur.sync_status = "failed", !.pc = "finally"]
       \/ /\ remoteUp
          /\ \E answer \in RemoteGetAnswers(sync.cur.uid) :
                sync' = [sync EXCEPT !.resp = answer, !.pc = "post",
                                     !.found = FoundAfter(@, sync.cur.uid, answer)]
    /\ UNCHANGED <<storeVars, remoteVars, regVars, syncPosts, attVars, wsVars, lastCall, singleVars, devVars>>

\* GET /students/{uid}: 200 means the student already exists on the remote
SyncGet ==
    /\ sync.pc = "get"
    /\ \/ /\ ~remoteUp    \* exception: sync_status = failed
          /\ sync' = [sync EXCEPT !.cur.sync_status = "failed", !.pc = "finally"]
       \/ /\ remoteUp
          /\ \E answer \in RemoteGetAnswers(sync.cur.uid) :
                sync' = [sync EXCEPT !.resp = answer,
                                     !.pc = IF answer = "200"
                                            THEN "save_synced" ELSE "post",
                                     !.found = FoundAfter(@, sync.cur.uid, answer)]
    /\ UNCHANGED <<storeVars, remoteVars, regVars, syncPosts, attVars, wsVars, lastCall, singleVars, devVars>>

\* POST /students/: 200 or 201 is success, anything else marks the row failed
SyncPost ==
    /\ sync.pc = "post"
    /\ \/ /\ ~remoteUp    \* exception: sync_status = failed
          /\ sync' = [sync EXCEPT !.cur.sync_status = "failed", !.resp = "none",
                                  !.pc = "finally"]
          /\ UNCHANGED <<remoteVars, syncPosts>>
       \/ /\ remoteUp
          /\ syncPosts' = Append(syncPosts, sync.cur.uid)
          /\ \E answer \in RemotePostAnswers(sync.cur.uid) :
                IF answer = "ok"
                THEN /\ remoteStudents' = remoteStudents \cup {sync.cur.uid}
                     /\ remoteCreated' = Append(remoteCreated, sync.cur.uid)
                     /\ sync' = [sync EXCEPT !.resp = "none", !.pc = "save_synced"]
                     /\ UNCHANGED remoteUp
                ELSE /\ sync' = [sync EXCEPT !.cur.sync_status = "failed",
                                             !.resp = "none", !.pc = "finally"]
                     /\ UNCHANGED remoteVars
    /\ UNCHANGED <<storeVars, regVars, attVars, wsVars, lastCall, singleVars, devVars>>

\* sync_status = synced; student.save()
SyncSaveSynced ==
    /\ sync.pc = "save_synced"
    /\ LET doc == [sync.cur EXCEPT !.sync_status = "synced"]
       IN  /\ missing' = Upsert(missing, doc)
           /\ sync' = [sync EXCEPT !.cur = doc, !.resp = "none", !.pc = "delete"]
    /\ UNCHANGED <<counter, students, nextId, remoteVars, regVars, syncPosts, attVars, wsVars, lastCall, singleVars, devVars>>

\* student.delete()
SyncDelete ==
    /\ sync.pc = "delete"
    /\ missing' = DeleteDoc(missing, sync.cur)
    /\ sync' = [sync EXCEPT !.pc = "finally"]
    /\ UNCHANGED <<counter, students, nextId, remoteVars, regVars, syncPosts, attVars, wsVars, lastCall, singleVars, devVars>>

\* finally: sync_attempts += 1; student.save()
SyncFinally ==
    /\ sync.pc = "finally"
    /\ LET doc == [sync.cur EXCEPT !.sync_attempts = @ + 1]
       IN  /\ missing' = Upsert(missing, doc)
           /\ sync' = [sync EXCEPT !.cur = NoDoc, !.pc = "loop"]
    /\ UNCHANGED <<counter, students, nextId, remoteVars, regVars, syncPosts, attVars, wsVars, lastCall, singleVars, devVars>>

\* a pass whose cleanup deletes nothing
SyncCleanupKeepsRows ==
    /\ sync.pc = "loop"
    /\ sync.cands = << >>
    /\ sync' = [sync EXCEPT !.pc = "drain_fetch"]
    /\ UNCHANGED <<storeVars, remoteVars, regVars, syncPosts, attVars, wsVars, lastCall, singleVars, devVars>>

\* a cleanup that also deletes the rows that gave up
CleanedUpFinished(rows) == {m \in rows : m.sync_status \notin {"synced", "failed"}}

\* MissingStudent.find(sync_status == "synced"), then delete() of each row found
CleanedUp(rows) == {m \in rows : m.sync_status # "synced"}

\* cleanup_synced_students_from_missing(): delete every row found synced
SyncCleanup ==
    /\ sync.pc = "loop"
    /\ sync.cands = << >>
    /\ missing' = CleanedUp(missing)
    /\ sync' = [sync EXCEPT !.pc = "drain_fetch"]
    /\ UNCHANGED <<counter, students, nextId, remoteVars, regVars, syncPosts, attVars, wsVars, lastCall, singleVars, devVars>>

\* sync_offline_attendance(): Student.find({"attendance": {"$ne": {}}}).to_list()
DrainFetch ==
    /\ sync.pc = "drain_fetch"
    /\ sync' = [sync EXCEPT !.dq = ToList({s \in students : s.attendance # {}}),
                            !.dkeys = << >>, !.dcur = NoStudent, !.pc = "drain"]
    /\ UNCHANGED <<storeVars, remoteVars, regVars, syncPosts, attVars, wsVars, lastCall, singleVars, devVars>>

\* for student in students_with_offline: offline_days = the _offline items
DrainNextStudent ==
    /\ sync.pc = "drain"
    /\ sync.dkeys = << >>
    /\ sync.dq # << >>
    /\ LET s == Head(sync.dq)
       IN  sync' = [sync EXCEPT
                       !.dcur = s, !.dq = Tail(sync.dq),
                       !.dkeys = EntryList({e \in s.attendance :
                                               e.off /\ ~e.val.synced})]
    /\ UNCHANGED <<storeVars, remoteVars, regVars, syncPosts, attVars, wsVars, lastCall, singleVars, devVars>>

\* a promotion that renames the key and keeps the record as its value
DrainApplyRenames(att, n, success) ==
    IF success
    THEN {IF e.n = n /\ e.off THEN [e EXCEPT !.off = FALSE] ELSE e : e \in att}
    ELSE DelKey(att, n, TRUE)

\* what the drain does to the in-memory attendance after the POST returned:
\* success renames the key to day{n} = True, anything else deletes the entry
DrainApply(att, n, success) ==
    IF success THEN DelKey(PutKey(att, n, FALSE, ValTrue), n, TRUE)
    ELSE DelKey(att, n, TRUE)

\* send_attendance_to_server(uid, timestamp): a transport failure is caught
\* inside and returned as success = False, like an HTTP error
DrainPost ==
    /\ sync.pc = "drain"
    /\ sync.dkeys # << >>
    /\ \E answer \in (IF remoteUp THEN RemoteAttendanceAnswers ELSE {"transport"}) :
          sync' = [sync EXCEPT
                      !.resp = answer,
                      !.dcur.attendance =
                          DrainApply(@, Head(sync.dkeys).n, answer = "ok"),
                      !.pc = "drain_save"]
    /\ UNCHANGED <<storeVars, remoteVars, regVars, syncPosts, attVars, wsVars, lastCall, singleVars, devVars>>

\* await student.save()
DrainSave ==
    /\ sync.pc = "drain_save"
    /\ students' = Upsert(students, sync.dcur)
    /\ sync' = [sync EXCEPT !.dkeys = Tail(sync.dkeys), !.resp = "none",
                            !.pc = "drain"]
    /\ UNCHANGED <<counter, missing, nextId, remoteVars, regVars, syncPosts, attVars, wsVars, lastCall, singleVars, devVars>>

\* await asyncio.sleep(60): the pass is over
SyncSleep ==
    /\ sync.pc = "drain"
    /\ sync.dkeys = << >>
    /\ sync.dq = << >>
    /\ sync' = IdleSync
    /\ UNCHANGED <<storeVars, remoteVars, regVars, syncPosts, attVars, wsVars, lastCall, singleVars, devVars>>

\* the process is restarted: the worker's locals are lost, the store is kept
SyncRestart ==
    /\ sync # IdleSync
    /\ sync' = IdleSync
    /\ UNCHANGED <<storeVars, remoteVars, regVars, syncPosts, attVars, wsVars, lastCall, singleVars, devVars>>

SyncStep ==
    \/ SyncProbe
    \/ SyncQuery
    \/ SyncMark
    \/ SyncGet
    \/ SyncPost
    \/ SyncSaveSynced
    \/ SyncDelete
    \/ SyncFinally
    \/ SyncCleanup
    \/ DrainFetch
    \/ DrainNextStudent
    \/ DrainPost
    \/ DrainSave
    \/ SyncSleep

\* POST /cleanup-synced-students: the same find and delete, on request
CleanupSyncedStudents ==
    /\ missing' = CleanedUp(missing)
    /\ UNCHANGED <<counter, students, nextId, remoteVars, regVars, syncVars, attVars, wsVars, lastCall, singleVars, devVars>>

(* ------------------------------------------------------------------ *)
(* Capture loop: capture_from_device                                    *)
(* ------------------------------------------------------------------ *)

IdleCap == [pc |-> "off", online |-> FALSE, uid |-> 0, ts |-> 0, obj |-> 0,
            student |-> NoStudent, resp |-> "none"]

\* Student.find_one(Student.uid == uid): the first matching document, or None
FindStudent(uid) ==
    IF \E s \in students : s.uid = uid
    THEN CHOOSE s \in students :
            s.uid = uid /\ \A t \in students : t.uid = uid => s.id <= t.id
    ELSE NoStudent

\* a day index that reuses the number of the last entry
DayIndexLast(att) == Cardinality(att)

\* day_index = len(student.attendance) + 1
DayIndex(att) == Cardinality(att) + 1

\* manager.broadcast(message): the message is identified by its kind and the
\* capture (uid, timestamp) it is about
Broadcast(kind, uid, ts) == [kind |-> kind, uid |-> uid, ts |-> ts, dev |-> 0]

\* the capture loop's messages also carry "Device={device.name}"
DeviceBroadcast(kind, uid, ts, dev) ==
    [kind |-> kind, uid |-> uid, ts |-> ts, dev |-> dev]

\* pending_decisions[decision_id] = {...}, decision_id = "{uid}_{unix seconds}"
DecisionId(uid, ts) == <<uid, ts>>

PutDecision(map, uid, ts, student, dev, obj) ==
    {p \in map : p.id # DecisionId(uid, ts)} \cup
        {[id |-> DecisionId(uid, ts), uid |-> uid, ts |-> ts,
          student |-> student, device |-> dev, obj |-> obj]}

\* the task is started; the connectivity mode is probed once, before the loop
\* the task's first run: without a connection on its device it returns; else
\* the connectivity mode is probed once, before the loop
CapStart(d) ==
    /\ cap[d].pc = "created"
    /\ cap' = [cap EXCEPT ![d] =
                  IF devConn[d] = "none" THEN IdleCap
                  ELSE [IdleCap EXCEPT !.pc = "listen", !.online = remoteUp]]
    /\ UNCHANGED <<storeVars, remoteVars, regVars, syncVars, vd, pending,
                   broadcasts, approvedPosts, now, wsVars, lastCall, singleVars, capCount, sessions, vdCount, devVars>>

\* FingerprintSession(student_id=attendance.uid, name="", timestamp=now_cairo)
NewSession(id, uid, ts) == [id |-> id, student_id |-> uid, timestamp |-> ts]

\* a loop that logs only the swipes of students the store knows
CapEventLogsKnown(d, u) ==
    /\ cap[d].pc = "listen"
    /\ IsCaptureRunning
    /\ capCount < MaxCaptures
    /\ capCount' = capCount + 1
    /\ sessions' = IF FindStudent(u) = NoStudent THEN sessions
                   ELSE sessions \cup {NewSession(capCount + 1, u, now)}
    /\ cap' = [cap EXCEPT ![d].uid = u, ![d].ts = now, ![d].obj = capCount + 1,
                          ![d].student = NoStudent, ![d].resp = "none",
                          ![d].pc = "find"]
    /\ UNCHANGED <<storeVars, remoteVars, regVars, syncVars, vd, pending,
                   broadcasts, approvedPosts, now, wsVars, lastCall, singleVars, vdCount, devVars>>

\* live_capture() yields a swipe of uid u; FingerprintSession(...).insert()
CapEvent(d, u) ==
    /\ cap[d].pc = "listen"
    /\ IsCaptureRunning
    /\ capCount < MaxCaptures
    /\ capCount' = capCount + 1
    /\ sessions' = sessions \cup {NewSession(capCount + 1, u, now)}
    /\ cap' = [cap EXCEPT ![d].uid = u, ![d].ts = now, ![d].obj = capCount + 1,
                          ![d].student = NoStudent, ![d].resp = "none",
                          ![d].pc = "find"]
    /\ UNCHANGED <<storeVars, remoteVars, regVars, syncVars, vd, pending,
                   broadcasts, approvedPosts, now, wsVars, lastCall, singleVars, vdCount, devVars>>

\* Student.find_one(...).  Online: broadcast "Online attendance captured".
\* Offline: a known student gets day{N}_offline in memory, an unknown one is skipped.
CapFind(d) ==
    /\ cap[d].pc = "find"
    /\ LET s == FindStudent(cap[d].uid)
       IN  IF cap[d].online
           THEN /\ cap' = [cap EXCEPT ![d].student = s, ![d].pc = "validate"]
                /\ broadcasts' = broadcasts \cup
                                   {DeviceBroadcast("CAPTURED", cap[d].uid, cap[d].ts, d)}
           ELSE /\ cap' = [cap EXCEPT
                             ![d].student =
                                 IF s = NoStudent THEN s
                                 ELSE [s EXCEPT !.attendance =
                                         PutKey(@, DayIndex(@), TRUE,
                                                OfflineValue(cap[d].ts, d))],
                             ![d].pc = IF s = NoStudent THEN "listen"
                                       ELSE "save_offline"]
                /\ UNCHANGED broadcasts
    /\ UNCHANGED <<storeVars, remoteVars, regVars, syncVars, vd, pending,
                   approvedPosts, now, wsVars, lastCall, singleVars, capCount, sessions, vdCount, devVars>>

\* answers of the validation POST /attendance/ when the remote is reachable:
\*   "ok"          200
\*   "policy"      400, the body contains "Attendance not allowed on" or
\*                 "Group schedule"
\*   "not_allowed" 400, the body contains "not allowed on" but neither of the
\*                 two phrases above (e.g. "Entry not allowed on Friday")
\*   "error"       any other answer that is not 200
ValidationAnswers == {"ok", "policy", "not_allowed", "error"}

\* a policy that escalates every rejection to the operator
ValidationRouteEscalateAll(answer, student) ==
    IF answer = "ok" THEN (IF student = NoStudent THEN "warn" ELSE "save")
    ELSE "decide"

\* what the loop does with the answer of the validation POST:
\* "save" (approved, student known), "warn" (approved, student unknown),
\* "decide" (status 400 and one of the two phrases the code looks for),
\* "reject" (anything else, also a transport failure, which
\* send_attendance_to_server turns into status 500)
ValidationRoute(answer, student) ==
    IF answer = "ok" THEN (IF student = NoStudent THEN "warn" ELSE "save")
    ELSE IF answer = "policy" THEN "decide"
    ELSE "reject"

\* send_attendance_to_server(uid, now), then the branch on its result
CapValidate(d) ==
    /\ cap[d].pc = "validate"
    /\ \E answer \in (IF remoteUp THEN ValidationAnswers ELSE {"transport"}) :
          LET route == ValidationRoute(answer, cap[d].student)
              c == cap[d]
          IN  /\ cap' = [cap EXCEPT
                            ![d].resp = answer,
                            ![d].student =
                                IF route = "save"
                                THEN [@ EXCEPT !.attendance =
                                         PutKey(@, DayIndex(@), FALSE, ValTrue)]
                                ELSE @,
                            ![d].pc = IF route = "save" THEN "save_online"
                                      ELSE "listen"]
              /\ pending' = IF route = "decide"
                            THEN PutDecision(pending, c.uid, c.ts, c.student, d, c.obj)
                            ELSE pending
              /\ broadcasts' =
                    CASE route = "decide" ->
                            broadcasts \cup {DeviceBroadcast("DECISION_REQUEST", c.uid, c.ts, d)}
                      [] route = "reject" ->
                            broadcasts \cup {DeviceBroadcast("REJECTED", c.uid, c.ts, d)}
                      [] route = "warn" ->
                            broadcasts \cup {DeviceBroadcast("WARNING", c.uid, c.ts, d)}
                      [] OTHER -> broadcasts
    /\ UNCHANGED <<storeVars, remoteVars, regVars, syncVars, vd, approvedPosts,
                   now, wsVars, lastCall, singleVars, capCount, sessions, vdCount, devVars>>

\* student.save() after approval, then broadcast APPROVED; a store failure is
\* broadcast as an error and the approval stands
CapSaveOnline(d) ==
    /\ cap[d].pc = "save_online"
    /\ \E ok \in BOOLEAN :
          IF ok
          THEN /\ students' = Upsert(students, cap[d].student)
               /\ broadcasts' = broadcasts \cup
                                  {DeviceBroadcast("APPROVED", cap[d].uid, cap[d].ts, d)}
          ELSE /\ broadcasts' = broadcasts \cup
                                  {DeviceBroadcast("ERROR", cap[d].uid, cap[d].ts, d)}
               /\ UNCHANGED students
    /\ cap' = [cap EXCEPT ![d].pc = "listen"]
    /\ UNCHANGED <<counter, missing, nextId, remoteVars, regVars, syncVars, vd,
                   pending, approvedPosts, now, wsVars, lastCall, singleVars, capCount, sessions, vdCount, devVars>>

\* offline mode: student.save(), then broadcast "Offline attendance captured";
\* a store failure ends the loop with the device in error
CapSaveOffline(d) ==
    /\ cap[d].pc = "save_offline"
    /\ \E ok \in BOOLEAN :
          IF ok
          THEN /\ students' = Upsert(students, cap[d].student)
               /\ broadcasts' = broadcasts \cup
                     {DeviceBroadcast("OFFLINE_CAPTURED", cap[d].uid, cap[d].ts, d)}
               /\ cap' = [cap EXCEPT ![d].pc = "listen"]
               /\ UNCHANGED devStatus
          ELSE /\ cap' = [cap EXCEPT ![d].pc = "ended"]
               /\ devStatus' = [devStatus EXCEPT ![d] = "error"]
               /\ UNCHANGED <<students, broadcasts>>
    /\ UNCHANGED <<counter, missing, nextId, remoteVars, regVars, syncVars, vd,
                   pending, approvedPosts, now, wsVars, lastCall, singleVars, capCount, sessions, vdCount, isRunning,
                   captureTasks, devConn, stop>>

\* a handler that also stops the registry when a driver raises
CapFaultStopsAll(d) ==
    /\ cap[d].pc = "listen"
    /\ cap' = [cap EXCEPT ![d].pc = "ended"]
    /\ devStatus' = [devStatus EXCEPT ![d] = "error"]
    /\ isRunning' = FALSE
    /\ UNCHANGED <<storeVars, remoteVars, regVars, syncVars, capCount, sessions, vd,
                   vdCount, pending, broadcasts, approvedPosts, now, wsVars, lastCall, singleVars,
                   captureTasks, devConn, stop>>

\* the driver raises in live_capture(): the except block puts the device in
\* error and the task ends
CapFault(d) ==
    /\ cap[d].pc = "listen"
    /\ cap' = [cap EXCEPT ![d].pc = "ended"]
    /\ devStatus' = [devStatus EXCEPT ![d] = "error"]
    /\ UNCHANGED <<storeVars, remoteVars, regVars, syncVars, capCount, sessions, vd,
                   vdCount, pending, broadcasts, approvedPosts, now, wsVars, lastCall, singleVars, isRunning,
                   captureTasks, devConn, stop>>

\* live_capture() yields while the registry is not running: break, the task
\* returns
CapBreak(d) ==
    /\ cap[d].pc = "listen"
    /\ ~IsCaptureRunning
    /\ cap' = [cap EXCEPT ![d] = IdleCap]
    /\ UNCHANGED <<storeVars, remoteVars, regVars, syncVars, capCount, sessions, vd,
                   vdCount, pending, broadcasts, approvedPosts, now, wsVars, lastCall, singleVars, devVars>>

CapStep(d) ==
    \/ CapStart(d)
    \/ \E u \in CaptureUids : CapEvent(d, u)
    \/ CapFind(d)
    \/ CapValidate(d)
    \/ CapSaveOnline(d)
    \/ CapSaveOffline(d)

\* a capture task is live from its creation until it returns, raises or is
\* cancelled
Live(d) == cap[d].pc \notin {"off", "ended"}

(* ------------------------------------------------------------------ *)
(* Start, stop and device maintenance                                   *)
(* ------------------------------------------------------------------ *)

\* the single-device fallback of start_attendance: refused while its flag is
\* set, else the flag is set and the task start_fingerprint_capture() created
SingleFallback ==
    IF is_attendance_running
    THEN UNCHANGED singleVars
    ELSE /\ is_attendance_running' = TRUE
         /\ attendance_task' = "created"

\* POST /fingerprint/start-attendance: refused while the registry runs tasks;
\* else start_all_capture_tasks connects every device (C answer) and creates
\* one task per connected device.  When it reports no success (the flag is
\* already set, or no device connected) the route falls back to the
\* single-device capture.
StartAttendance ==
    /\ ~IsCaptureRunning
    /\ IF isRunning
       THEN /\ UNCHANGED <<devStatus, devConn, isRunning, captureTasks, cap>>
            /\ SingleFallback
       ELSE \E C \in SUBSET Devices :
              /\ devStatus' = [d \in Devices |-> IF d \in C THEN "online" ELSE "error"]
              /\ devConn' = [d \in Devices |-> IF d \in C THEN "capture" ELSE devConn[d]]
              /\ IF C = {}
                 THEN /\ UNCHANGED <<isRunning, captureTasks, cap>>
                      /\ SingleFallback
                 ELSE /\ isRunning' = TRUE
                      /\ captureTasks' = C
                      /\ cap' = [d \in Devices |->
                                   IF d \in C THEN [IdleCap EXCEPT !.pc = "created"]
                                   ELSE cap[d]]
                      /\ UNCHANGED singleVars
    /\ UNCHANGED <<storeVars, remoteVars, regVars, syncVars, capCount, sessions, vd,
                   vdCount, pending, broadcasts, approvedPosts, now, wsVars, lastCall, stop>>

\* start_fingerprint_capture(): connect_device() gives no connection, the flag is
\* cleared and the task returns; or the task enters its capture loop
SingleConnect ==
    /\ attendance_task = "created"
    /\ \/ /\ is_attendance_running' = FALSE
          /\ attendance_task' = "done"
       \/ /\ attendance_task' = "listen"
          /\ UNCHANGED is_attendance_running
    /\ UNCHANGED <<storeVars, remoteVars, regVars, syncVars, attVars, wsVars, lastCall,
                   devVars>>

\* the capture loop of start_fingerprint_capture() raises: the error is printed,
\* the connection closed and the task ends; the flag is left as it is
SingleFault ==
    /\ attendance_task = "listen"
    /\ attendance_task' = "done"
    /\ UNCHANGED <<storeVars, remoteVars, regVars, syncVars, attVars, wsVars, lastCall,
                   devVars, is_attendance_running>>

\* the single-device part of stop_attendance: the flag is cleared and a task
\* that is not done is cancelled and awaited
StoppedTask == IF attendance_task \in {"created", "listen"} THEN "done"
               ELSE attendance_task

SingleStopped ==
    IF is_attendance_running
    THEN /\ is_attendance_running' = FALSE
         /\ attendance_task' = StoppedTask
    ELSE UNCHANGED singleVars

\* POST /fingerprint/stop-attendance -> stop_all_capture_tasks: clear the flag
StopBegin ==
    /\ stop.pc = "idle"
    /\ IsCaptureRunning
    /\ isRunning' = FALSE
    /\ stop' = [pc |-> "cancel", todo |-> captureTasks]
    /\ UNCHANGED <<storeVars, remoteVars, regVars, syncVars, attVars, wsVars, lastCall, singleVars,
                   captureTasks, devStatus, devConn>>

\* task.cancel(); await task, for the next task of capture_tasks that is not done
StopCancel ==
    /\ stop.pc = "cancel"
    /\ stop.todo # {}
    /\ LET d == FirstDevice(stop.todo)
       IN  /\ cap' = [cap EXCEPT ![d] = IF Live(d) THEN IdleCap ELSE @]
           /\ stop' = [stop EXCEPT !.todo = @ \ {d}]
    /\ UNCHANGED <<storeVars, remoteVars, regVars, syncVars, capCount, sessions, vd,
                   vdCount, pending, broadcasts, approvedPosts, now, wsVars, lastCall, singleVars, isRunning,
                   captureTasks, devStatus, devConn>>

\* disconnect_all_devices(); capture_tasks = {}; stop_all_capture_tasks returns
\* and the route goes on to the single-device capture
StopFinish ==
    /\ stop.pc = "cancel"
    /\ stop.todo = {}
    /\ devStatus' = [d \in Devices |-> IF devConn[d] # "none" THEN "offline"
                                        ELSE devStatus[d]]
    /\ devConn' = [d \in Devices |-> "none"]
    /\ captureTasks' = {}
    /\ stop' = IdleStop
    /\ SingleStopped
    /\ UNCHANGED <<storeVars, remoteVars, regVars, syncVars, attVars, wsVars, lastCall, isRunning>>

\* POST /fingerprint/stop-attendance while the registry runs no task: only the
\* single-device capture is stopped
StopSingle ==
    /\ stop.pc = "idle"
    /\ ~IsCaptureRunning
    /\ is_attendance_running
    /\ SingleStopped
    /\ UNCHANGED <<storeVars, remoteVars, regVars, syncVars, attVars, wsVars, lastCall,
                   devVars>>

StopStep == StopBegin \/ StopCancel \/ StopFinish \/ StopSingle

\* DELETE /students/delete_from_all_devices/{uid} ->
\* delete_student_from_all_devices: every device is connected and disconnected
DeleteFromAllDevices ==
    /\ \E R \in SUBSET Devices :
          /\ devStatus' = DevStatusAfterTouch(Devices, R)
          /\ devConn' = DevConnAfterTouch(Devices, R)
    /\ UNCHANGED <<storeVars, remoteVars, regVars, syncVars, attVars, wsVars, lastCall, singleVars, isRunning,
                   captureTasks, stop>>

(* ------------------------------------------------------------------ *)
(* Decision arbiter: process_assistant_decision                         *)
(* ------------------------------------------------------------------ *)

NoDecision == [id |-> <<0, 0>>, uid |-> 0, ts |-> 0, student |-> NoStudent,
               device |-> 0, obj |-> 0]

IdleVerdict == [pc |-> "idle", data |-> NoDecision, decision |-> "none",
                dayn |-> 0, result |-> "none"]

\* a verdict arrives (websocket or POST /assistant-decision) for a pending id.
\* approve with a student snapshot: day{N} = True is set on the snapshot, which
\* is the one object the pending map and every verdict in flight for it hold;
\* approve without a snapshot falls through to the last return; reject goes on
\* to its broadcast.
VerdictStart(v, p, decision) ==
    /\ vd[v].pc = "idle"
    /\ vdCount < MaxVerdicts
    /\ vdCount' = vdCount + 1
    /\ p \in pending
    /\ IF decision = "approve" /\ p.student # NoStudent
       THEN LET q == [p EXCEPT !.student.attendance =
                                  PutKey(@, DayIndex(@), FALSE, ValTrue)]
            IN  /\ pending' = (pending \ {p}) \cup {q}
                /\ vd' = [w \in Verdicts |->
                            IF w = v
                            THEN [pc |-> "save", data |-> q,
                                  decision |-> decision,
                                  dayn |-> DayIndex(p.student.attendance),
                                  result |-> "none"]
                            ELSE IF vd[w].data.obj = p.obj
                                 THEN [vd[w] EXCEPT !.data = q]
                                 ELSE vd[w]]
       ELSE /\ vd' = [vd EXCEPT ![v] =
                        [pc |-> IF decision = "reject" THEN "reject" ELSE "done",
                         data |-> p, decision |-> decision, dayn |-> 0,
                         result |-> IF decision = "reject" THEN "none"
                                    ELSE "invalid"]]
            /\ UNCHANGED pending
    /\ UNCHANGED <<storeVars, remoteVars, regVars, syncVars, cap, broadcasts,
                   approvedPosts, now, wsVars, lastCall, singleVars, capCount, sessions, devVars>>

\* a verdict for an id that is not pending: "Decision ID not found"
VerdictUnknownAnnounced(v, decision) ==
    /\ vd[v].pc = "idle"
    /\ vdCount < MaxVerdicts
    /\ vdCount' = vdCount + 1
    /\ vd' = [vd EXCEPT ![v] = [pc |-> "done", data |-> NoDecision,
                                decision |-> decision, dayn |-> 0,
                                result |-> "not_found"]]
    /\ broadcasts' = broadcasts \cup {Broadcast("ERROR_SAVE", 0, 0)}
    /\ UNCHANGED <<storeVars, remoteVars, regVars, syncVars, cap, pending,
                   approvedPosts, now, wsVars, lastCall, singleVars, capCount, sessions, devVars>>

VerdictUnknown(v, decision) ==
    /\ vd[v].pc = "idle"
    /\ vdCount < MaxVerdicts
    /\ vdCount' = vdCount + 1
    /\ vd' = [vd EXCEPT ![v] = [pc |-> "done", data |-> NoDecision,
                                decision |-> decision, dayn |-> 0,
                                result |-> "not_found"]]
    /\ UNCHANGED <<storeVars, remoteVars, regVars, syncVars, cap, pending,
                   broadcasts, approvedPosts, now, wsVars, lastCall, singleVars, capCount, sessions, devVars>>

\* approve: student.save(); a failure is broadcast and returned, the decision stays
VerdictSave(v) ==
    /\ vd[v].pc = "save"
    /\ \E ok \in BOOLEAN :
          IF ok
          THEN /\ students' = Upsert(students, vd[v].data.student)
               /\ vd' = [vd EXCEPT ![v].pc = "post"]
               /\ UNCHANGED broadcasts
          ELSE /\ broadcasts' = broadcasts \cup
                     {Broadcast("ERROR_SAVE", vd[v].data.uid, vd[v].data.ts)}
               /\ vd' = [vd EXCEPT ![v].pc = "done", ![v].result = "error"]
               /\ UNCHANGED students
    /\ UNCHANGED <<counter, missing, nextId, remoteVars, regVars, syncVars, cap,
                   pending, approvedPosts, now, wsVars, lastCall, singleVars, capCount, sessions, vdCount, devVars>>

\* approve: send_attendance_to_server_approved(uid, timestamp); a failure is
\* broadcast and returned, the decision stays
VerdictPost(v) ==
    /\ vd[v].pc = "post"
    /\ \/ /\ remoteUp
          /\ approvedPosts' = Append(approvedPosts, vd[v].data.id)
          /\ \E answer \in {"ok", "error"} :
                IF answer = "ok"
                THEN /\ vd' = [vd EXCEPT ![v].pc = "approved"]
                     /\ UNCHANGED broadcasts
                ELSE /\ broadcasts' = broadcasts \cup
                           {Broadcast("ERROR_BACKEND", vd[v].data.uid, vd[v].data.ts)}
                     /\ vd' = [vd EXCEPT ![v].pc = "done", ![v].result = "error"]
       \/ /\ ~remoteUp
          /\ broadcasts' = broadcasts \cup
                {Broadcast("ERROR_BACKEND", vd[v].data.uid, vd[v].data.ts)}
          /\ vd' = [vd EXCEPT ![v].pc = "done", ![v].result = "error"]
          /\ UNCHANGED approvedPosts
    /\ UNCHANGED <<storeVars, remoteVars, regVars, syncVars, cap, pending, now, wsVars, lastCall, singleVars,
                   capCount, sessions, vdCount, devVars>>

\* del pending_decisions[decision_id]
RemoveDecision(map, id) == {p \in map : p.id # id}

\* decision_id in pending_decisions
IsPending(map, id) == \E p \in map : p.id = id

\* approve: broadcast ASSISTANT APPROVED, then remove the decision; when the id
\* is gone by then, the KeyError is broadcast as a failure to save
VerdictApproved(v) ==
    /\ vd[v].pc = "approved"
    /\ broadcasts' = broadcasts \cup
          {Broadcast("ASSISTANT_APPROVED", vd[v].data.uid, vd[v].data.ts)} \cup
          (IF IsPending(pending, vd[v].data.id) THEN {}
           ELSE {Broadcast("ERROR_SAVE", vd[v].data.uid, vd[v].data.ts)})
    /\ pending' = RemoveDecision(pending, vd[v].data.id)
    /\ vd' = [vd EXCEPT ![v].pc = "done",
                        ![v].result = IF IsPending(pending, vd[v].data.id)
                                      THEN "success" ELSE "error"]
    /\ UNCHANGED <<storeVars, remoteVars, regVars, syncVars, cap, approvedPosts,
                   now, wsVars, lastCall, singleVars, capCount, sessions, vdCount, devVars>>

\* a reject that broadcasts and leaves the decision in the map
VerdictRejectedKeeps(v) ==
    /\ vd[v].pc = "reject"
    /\ broadcasts' = broadcasts \cup
          {Broadcast("ASSISTANT_REJECTED", vd[v].data.uid, vd[v].data.ts)}
    /\ vd' = [vd EXCEPT ![v].pc = "done", ![v].result = "success"]
    /\ UNCHANGED <<storeVars, remoteVars, regVars, syncVars, cap, approvedPosts,
                   now, wsVars, lastCall, singleVars, capCount, sessions, vdCount, devVars, pending>>

\* reject: broadcast ASSISTANT REJECTED, then remove the decision; when the id
\* is gone by then, the KeyError leaves the handler
VerdictRejected(v) ==
    /\ vd[v].pc = "reject"
    /\ broadcasts' = broadcasts \cup
          {Broadcast("ASSISTANT_REJECTED", vd[v].data.uid, vd[v].data.ts)}
    /\ pending' = RemoveDecision(pending, vd[v].data.id)
    /\ vd' = [vd EXCEPT ![v].pc = "done",
                        ![v].result = IF IsPending(pending, vd[v].data.id)
                                      THEN "success" ELSE "key_error"]
    /\ UNCHANGED <<storeVars, remoteVars, regVars, syncVars, cap, approvedPosts,
                   now, wsVars, lastCall, singleVars, capCount, sessions, vdCount, devVars>>

\* the result has been returned to the operator
VerdictFinish(v) ==
    /\ vd[v].pc = "done"
    /\ vd' = [vd EXCEPT ![v] = IdleVerdict]
    /\ UNCHANGED <<storeVars, remoteVars, regVars, syncVars, cap, pending,
                   broadcasts, approvedPosts, now, wsVars, lastCall, singleVars, capCount, sessions, vdCount, devVars>>

VerdictStep(v) ==
    \/ \E p \in pending, decision \in {"approve", "reject"} :
          VerdictStart(v, p, decision)
    \/ \E decision \in {"approve", "reject"} : VerdictUnknown(v, decision)
    \/ VerdictSave(v)
    \/ VerdictPost(v)
    \/ VerdictApproved(v)
    \/ VerdictRejected(v)
    \/ VerdictFinish(v)

\* a second passes on the wall clock
Tick ==
    /\ now < MaxTime
    /\ now' = now + 1
    /\ UNCHANGED <<wsVars, lastCall, singleVars, storeVars, remoteVars, regVars, syncVars, cap, vd, pending,
                   broadcasts, approvedPosts, capCount, sessions, vdCount, devVars>>

(* ------------------------------------------------------------------ *)
(* Websocket subscribers: ConnectionManager                             *)
(* ------------------------------------------------------------------ *)

\* a websocket before its endpoint has accepted it
NewSocket == [state |-> "new", got |-> << >>]

\* no broadcast in progress; n counts the caller's broadcasts
IdleBroadcast == [pc |-> "idle", msg |-> <<0, 0>>, n |-> 0, copy |-> << >>,
                  todo |-> << >>, failed |-> << >>, sent |-> {}]

Members(seq) == {seq[i] : i \in DOMAIN seq}

\* list.remove(x) for the elements of `gone` that are in the list
Without(seq, gone) == SelectSeq(seq, LAMBDA x : x \notin gone)

Times(seq, x) == Cardinality({i \in DOMAIN seq : seq[i] = x})

\* websocket_endpoint: manager.connect(websocket): accept(), then append
WsConnect(s) ==
    /\ sockets[s].state = "new"
    /\ sockets' = [sockets EXCEPT ![s].state = "open"]
    /\ activeConnections' = Append(activeConnections, s)
    /\ UNCHANGED <<storeVars, remoteVars, regVars, syncVars, attVars, lastCall, singleVars, devVars, bc>>

\* the peer goes away: from now on send_text on this websocket raises
WsClose(s) ==
    /\ sockets[s].state = "open"
    /\ sockets' = [sockets EXCEPT ![s].state = "closed"]
    /\ UNCHANGED <<storeVars, remoteVars, regVars, syncVars, attVars, lastCall, singleVars, devVars,
                   activeConnections, bc>>

\* websocket_endpoint: receive_text() raises WebSocketDisconnect and the
\* endpoint calls manager.disconnect(websocket); when a broadcast has removed
\* the websocket before, list.remove raises and the list stays as it is
WsDisconnect(s) ==
    /\ sockets[s].state = "closed"
    /\ sockets' = [sockets EXCEPT ![s].state = "gone"]
    /\ activeConnections' = Without(activeConnections, {s})
    /\ UNCHANGED <<storeVars, remoteVars, regVars, syncVars, attVars, lastCall, singleVars, devVars, bc>>

\* manager.broadcast(message) is called: the loop runs over a copy of the list
BroadcastStart(c) ==
    /\ bc[c].pc = "idle"
    /\ bc[c].n < MaxBroadcasts
    /\ bc' = [bc EXCEPT ![c] = [pc |-> "send", msg |-> <<c, bc[c].n + 1>>,
                                n |-> bc[c].n + 1, copy |-> activeConnections,
                                todo |-> activeConnections, failed |-> << >>,
                                sent |-> {}]]
    /\ UNCHANGED <<storeVars, remoteVars, regVars, syncVars, attVars, lastCall, singleVars, devVars,
                   activeConnections, sockets>>

\* a broadcast whose loop ends at the first send that raises
BroadcastSendStopsAtFailure(c) ==
    /\ bc[c].pc = "send"
    /\ bc[c].todo # << >>
    /\ LET s == Head(bc[c].todo)
       IN  IF sockets[s].state = "open"
           THEN /\ sockets' = [sockets EXCEPT ![s].got = Append(@, bc[c].msg)]
                /\ bc' = [bc EXCEPT ![c].todo = Tail(@), ![c].sent = @ \cup {s}]
           ELSE /\ bc' = [bc EXCEPT ![c].todo = << >>,
                                    ![c].failed = Append(@, s)]
                /\ UNCHANGED sockets
    /\ UNCHANGED <<storeVars, remoteVars, regVars, syncVars, attVars, lastCall, singleVars, devVars,
                   activeConnections>>

\* await connection.send_text(message) for the next connection of the copy; an
\* exception puts the connection on connections_to_remove
BroadcastSend(c) ==
    /\ bc[c].pc = "send"
    /\ bc[c].todo # << >>
    /\ LET s == Head(bc[c].todo)
       IN  IF sockets[s].state = "open"
           THEN /\ sockets' = [sockets EXCEPT ![s].got = Append(@, bc[c].msg)]
                /\ bc' = [bc EXCEPT ![c].todo = Tail(@), ![c].sent = @ \cup {s}]
           ELSE /\ bc' = [bc EXCEPT ![c].todo = Tail(@),
                                    ![c].failed = Append(@, s)]
                /\ UNCHANGED sockets
    /\ UNCHANGED <<storeVars, remoteVars, regVars, syncVars, attVars, lastCall, singleVars, devVars,
                   activeConnections>>

\* after the loop: remove every connection of connections_to_remove that is
\* still in the list
BroadcastRemove(c) ==
    /\ bc[c].pc = "send"
    /\ bc[c].todo = << >>
    /\ activeConnections' = Without(activeConnections, Members(bc[c].failed))
    /\ bc' = [bc EXCEPT ![c].pc = "idle"]
    /\ UNCHANGED <<storeVars, remoteVars, regVars, syncVars, attVars, lastCall, singleVars, devVars,
                   sockets>>

BroadcastStep(c) == BroadcastStart(c) \/ BroadcastSend(c) \/ BroadcastRemove(c)

(* ------------------------------------------------------------------ *)
(* Specifications                                                       *)
(* ------------------------------------------------------------------ *)

Init ==
    /\ counter \in {<< >>, <<InitialCounterValue>>}
    /\ students = {}
    /\ missing = {}
    /\ nextId = 1
    /\ remoteUp \in BOOLEAN
    /\ remoteStudents = {}
    /\ remoteCreated = << >>
    /\ reg = [r \in Reqs |-> IdleReq]
    /\ regCount = 0
    /\ sync = IdleSync
    /\ syncPosts = << >>
    /\ cap = [d \in Devices |-> IdleCap]
    /\ capCount = 0
    /\ sessions = {}
    /\ vd = [v \in Verdicts |-> IdleVerdict]
    /\ vdCount = 0
    /\ pending = {}
    /\ broadcasts = {}
    /\ approvedPosts = << >>
    /\ now = 1
    /\ activeConnections = << >>
    /\ sockets = [s \in Sockets |-> NewSocket]
    /\ bc = [c \in Callers |-> IdleBroadcast]
    /\ lastCall = NoCall
    /\ is_attendance_running = FALSE
    /\ attendance_task = "none"
    /\ isRunning = FALSE
    /\ captureTasks = {}
    /\ devStatus = [d \in Devices |-> "offline"]
    /\ devConn = [d \in Devices |-> "none"]
    /\ stop = IdleStop

\* operations one at a time: a request or a counter reset starts only when no
\* request is in flight; the slot that serves a request makes no difference to
\* what it does, so slot 1 serves them all
NextRegSolo ==
    \/ RegStep(1) /\ \A q \in Reqs \ {1} : reg[q].pc = "idle"
    \/ InitCounter /\ \A q \in Reqs : reg[q].pc = "idle"
    \/ NetChange

SpecRegSolo == Init /\ [][NextRegSolo]_vars

\* registrations overlapping at their awaits
NextReg ==
    \/ \E r \in Reqs : RegStep(r)
    \/ NetChange

SpecReg == Init /\ [][NextReg]_vars

\* An attendance map as k captures leave it: capture n wrote day{n} = True
\* (validated online) or day{n}_offline = {...} (recorded offline at time n)
CapturedAttendance(k, offlineDays) ==
    {[n |-> n, off |-> n \in offlineDays,
      val |-> IF n \in offlineDays THEN OfflineValue(n, 1) ELSE ValTrue] : n \in 1..k}

InitAttendances ==
    {CapturedAttendance(k, offlineDays) :
        k \in 0..MaxInitDays, offlineDays \in SUBSET (1..MaxInitDays)}

\* The store after k registrations (uids 10019..) and some captures: the students
\* in `queued` were registered offline and have a pending MissingStudent row, the
\* uids in `known` exist on the remote.
InitSync ==
    /\ \E k \in 1..MaxInitStudents :
         \E att \in [1..k -> InitAttendances],
            queued \in SUBSET (1..k), known \in SUBSET (1..k) :
            /\ (1..k) \ queued \subseteq known
            /\ students = {[id |-> 2 * i - 1, uid |-> InitialCounterValue + i,
                            student_id |-> ToString(InitialCounterValue + i),
                            attendance |-> att[i]] : i \in 1..k}
            /\ missing = {NewMissingStudent(2 * i, InitialCounterValue + i,
                                             ToString(InitialCounterValue + i)) :
                             i \in queued}
            /\ remoteStudents = {InitialCounterValue + i : i \in known}
            /\ counter = <<InitialCounterValue + k>>
            /\ nextId = 2 * k + 1
    /\ remoteUp \in BOOLEAN
    /\ remoteCreated = << >>
    /\ reg = [r \in Reqs |-> IdleReq]
    /\ regCount = 0
    /\ sync = IdleSync
    /\ syncPosts = << >>
    /\ cap = [d \in Devices |-> IdleCap]
    /\ capCount = 0
    /\ sessions = {}
    /\ vd = [v \in Verdicts |-> IdleVerdict]
    /\ vdCount = 0
    /\ pending = {}
    /\ broadcasts = {}
    /\ approvedPosts = << >>
    /\ now = 1
    /\ activeConnections = << >>
    /\ sockets = [s \in Sockets |-> NewSocket]
    /\ bc = [c \in Callers |-> IdleBroadcast]
    /\ lastCall = NoCall
    /\ is_attendance_running = FALSE
    /\ attendance_task = "none"
    /\ isRunning = FALSE
    /\ captureTasks = {}
    /\ devStatus = [d \in Devices |-> "offline"]
    /\ devConn = [d \in Devices |-> "none"]
    /\ stop = IdleStop

\* the sync worker, restarts of the process and changes of reachability
NextSync ==
    \/ SyncStep
    \/ SyncRestart
    \/ NetChange

SpecSync == InitSync /\ [][NextSync]_vars

\* the sync worker running without a restart of the process
NextSyncRun ==
    \/ SyncStep
    \/ NetChange

\* The store after k registrations that are all synced, with some captures;
\* attendance is started on every device and no decision is pending.
InitAtt ==
    /\ \E k \in 1..MaxInitStudents :
         \E att \in [1..k -> InitAttendances] :
            /\ students = {[id |-> 2 * i - 1, uid |-> InitialCounterValue + i,
                            student_id |-> ToString(InitialCounterValue + i),
                            attendance |-> att[i]] : i \in 1..k}
            /\ remoteStudents = {InitialCounterValue + i : i \in 1..k}
            /\ counter = <<InitialCounterValue + k>>
            /\ nextId = 2 * k + 1
    /\ missing = {}
    /\ remoteUp \in BOOLEAN
    /\ remoteCreated = << >>
    /\ reg = [r \in Reqs |-> IdleReq]
    /\ regCount = 0
    /\ sync = IdleSync
    /\ syncPosts = << >>
    /\ cap = [d \in Devices |-> [IdleCap EXCEPT !.pc = "created"]]
    /\ capCount = 0
    /\ sessions = {}
    /\ vd = [v \in Verdicts |-> IdleVerdict]
    /\ vdCount = 0
    /\ pending = {}
    /\ broadcasts = {}
    /\ approvedPosts = << >>
    /\ now = 1
    /\ activeConnections = << >>
    /\ sockets = [s \in Sockets |-> NewSocket]
    /\ bc = [c \in Callers |-> IdleBroadcast]
    /\ lastCall = NoCall
    /\ is_attendance_running = FALSE
    /\ attendance_task = "none"
    /\ isRunning = TRUE
    /\ captureTasks = Devices
    /\ devStatus = [d \in Devices |-> "online"]
    /\ devConn = [d \in Devices |-> "capture"]
    /\ stop = IdleStop

\* the capture tasks of the devices, the operator's verdicts, the clock and
\* changes of reachability
NextAtt ==
    \/ \E d \in Devices : CapStep(d)
    \/ \E v \in Verdicts : VerdictStep(v)
    \/ Tick
    \/ NetChange

SpecAtt == InitAtt /\ [][NextAtt]_vars

\* One synced registration without captures, and the registry as it is
\* constructed: nothing started.
InitDev ==
    /\ students = {NewStudent(1, InitialCounterValue + 1,
                              ToString(InitialCounterValue + 1))}
    /\ remoteStudents = {InitialCounterValue + 1}
    /\ counter = <<InitialCounterValue + 1>>
    /\ nextId = 3
    /\ missing = {}
    /\ remoteUp \in BOOLEAN
    /\ remoteCreated = << >>
    /\ reg = [r \in Reqs |-> IdleReq]
    /\ regCount = 0
    /\ sync = IdleSync
    /\ syncPosts = << >>
    /\ cap = [d \in Devices |-> IdleCap]
    /\ capCount = 0
    /\ sessions = {}
    /\ vd = [v \in Verdicts |-> IdleVerdict]
    /\ vdCount = 0
    /\ pending = {}
    /\ broadcasts = {}
    /\ approvedPosts = << >>
    /\ now = 1
    /\ activeConnections = << >>
    /\ sockets = [s \in Sockets |-> NewSocket]
    /\ bc = [c \in Callers |-> IdleBroadcast]
    /\ lastCall = NoCall
    /\ is_attendance_running = FALSE
    /\ attendance_task = "none"
    /\ isRunning = FALSE
    /\ captureTasks = {}
    /\ devStatus = [d \in Devices |-> "offline"]
    /\ devConn = [d \in Devices |-> "none"]
    /\ stop = IdleStop

\* One synced registration with some captures; attendance is started on every
\* device.
InitCap ==
    /\ \E att \in InitAttendances :
          students = {[NewStudent(1, InitialCounterValue + 1,
                                  ToString(InitialCounterValue + 1))
                         EXCEPT !.attendance = att]}
    /\ remoteStudents = {InitialCounterValue + 1}
    /\ counter = <<InitialCounterValue + 1>>
    /\ nextId = 3
    /\ missing = {}
    /\ remoteUp \in BOOLEAN
    /\ remoteCreated = << >>
    /\ reg = [r \in Reqs |-> IdleReq]
    /\ regCount = 0
    /\ sync = IdleSync
    /\ syncPosts = << >>
    /\ cap = [d \in Devices |-> [IdleCap EXCEPT !.pc = "created"]]
    /\ capCount = 0
    /\ sessions = {}
    /\ vd = [v \in Verdicts |-> IdleVerdict]
    /\ vdCount = 0
    /\ pending = {}
    /\ broadcasts = {}
    /\ approvedPosts = << >>
    /\ now = 1
    /\ activeConnections = << >>
    /\ sockets = [s \in Sockets |-> NewSocket]
    /\ bc = [c \in Callers |-> IdleBroadcast]
    /\ lastCall = NoCall
    /\ is_attendance_running = FALSE
    /\ attendance_task = "none"
    /\ isRunning = TRUE
    /\ captureTasks = Devices
    /\ devStatus = [d \in Devices |-> "online"]
    /\ devConn = [d \in Devices |-> "capture"]
    /\ stop = IdleStop

\* the capture tasks alone, with changes of reachability
NextCap ==
    \/ \E d \in Devices : CapStep(d)
    \/ NetChange

SpecCap == InitCap /\ [][NextCap]_vars

\* the capture tasks next to the sync worker, whose passes find no
\* MissingStudent row and drain the offline attendance
NextDrain ==
    \/ \E d \in Devices : CapStep(d)
    \/ SyncProbe
    \/ SyncQuery
    \/ SyncCleanup
    \/ DrainFetch
    \/ DrainNextStudent
    \/ DrainPost
    \/ DrainSave
    \/ SyncSleep
    \/ NetChange

SpecDrain == InitCap /\ [][NextDrain]_vars

\* the registry: attendance is started in multi-device mode (not while a stop
\* is in progress) and stopped, the capture tasks run, raise or are cancelled
NextDev ==
    \/ StartAttendance /\ stop.pc = "idle" /\ ~is_attendance_running'
    \/ StopBegin
    \/ StopCancel
    \/ StopFinish
    \/ \E d \in Devices : CapStep(d) \/ CapFault(d) \/ CapBreak(d)

SpecDev == InitDev /\ [][NextDev]_vars

\* device maintenance next to capture: attendance is started and stopped, the
\* tasks listen, raise or are cancelled, and a deletion request visits the
\* devices
NextMaint ==
    \/ StartAttendance /\ stop.pc = "idle"
    \/ StopStep
    \/ \E d \in Devices : CapStart(d) \/ CapFault(d) \/ CapBreak(d)
    \/ DeleteFromAllDevices
    \/ NetChange

SpecMaint == InitDev /\ [][NextMaint]_vars

(* ------------------------------------------------------------------ *)
(* Properties                                                           *)
(* ------------------------------------------------------------------ *)

Count(log, x) == Cardinality({i \in DOMAIN log : log[i] = x})

\* the stored student document sid holds attendance entry e
StoreHas(store, sid, e) == \E s \in store : s.id = sid /\ e \in s.attendance

\* student sid holds the offline entry day{n}_offline with synced = False
OfflineUnsynced(store, sid, n) ==
    \E s \in store : s.id = sid /\
        \E e \in s.attendance : e.n = n /\ e.off /\ ~e.val.synced

\* student sid holds the validated key day{n} = True
Validated(store, sid, n) ==
    \E s \in store : s.id = sid /\
        \E e \in s.attendance : e.n = n /\ ~e.off /\ e.val = ValTrue

StudentIds == 1..(2 * (MaxInitStudents + MaxRegistrations))
DayNumbers == 1..(MaxInitDays + 2)

\* C1: a registration request that ends in an error leaves the student_sequence
\* counter at the value it had when the request started.
C1_CounterUnchangedOnError ==
    \A r \in Reqs : reg[r].pc = "error" => CounterValue = reg[r].c0

Interrupted == SyncRestart /\ ~SyncSleep

\* the remote answers truthfully and accepts: no 5xx on the existence check and
\* no refused or failed POST leaves the worker's row failed
RemoteAccepts == remoteUp /\ sync.resp # "500" /\ sync.cur.sync_status # "failed"

BetweenOperations == (\A r \in Reqs : reg[r].pc = "idle") /\ sync = IdleSync

\* C13: between operations, missing_students holds a row with uid u exactly when
\* the local store holds a Student with uid u that the remote has not
\* acknowledged.
C13_MissingIffUnacknowledged ==
    BetweenOperations =>
        \A u \in {s.uid : s \in students} \cup {x.uid : x \in missing} :
            (\E x \in missing : x.uid = u)
                <=> (\E s \in students : s.uid = u /\ u \notin remoteStudents)

\* a row that has used up its attempts
Capped(x) == x.sync_status = "failed" /\ x.sync_attempts >= MaxSyncAttempts

\* C14: the worker's query returns exactly the rows that are pending, or failed
\* with fewer than three attempts; a row that is failed with three attempts is
\* never changed or deleted, and the worker never has a remote request in hand
\* for it.
C14_RetryCap ==
    /\ [][(sync.pc = "query" /\ sync'.pc = "loop")
            => {sync'.cands[i] : i \in DOMAIN sync'.cands} =
                  {x \in missing :
                      \/ x.sync_status = "pending"
                      \/ x.sync_status = "failed" /\ x.sync_attempts < 3}]_vars
    /\ [][\A x \in missing : Capped(x) => x \in missing']_vars
    /\ [](sync.pc \in {"get", "post"}
            => ~\E x \in missing : x.id = sync.cur.id /\ Capped(x))

\* C14 witness: a pass whose query found nothing to do while a row that failed
\* three times is in the store and the remote is reachable.
C14_Witness ==
    /\ sync.pc = "loop"
    /\ sync.cands = << >>
    /\ remoteUp
    /\ \E x \in missing : Capped(x) /\ x.sync_attempts = 3

\* C2: no two Student records of the local store have the same uid.
C2_UidUnique ==
    \A s1, s2 \in students : s1.uid = s2.uid => s1 = s2

\* C3: at most one POST /students/ creates a record on the remote for a uid, over
\* any number of passes and restarts of the sync worker, and the worker sends a
\* POST only after an existence check that did not answer 200.
C3_IdempotentSync ==
    /\ \A i, j \in DOMAIN remoteCreated :
          remoteCreated[i] = remoteCreated[j] => i = j
    /\ sync.pc = "post" => sync.resp # "200"

\* C3 witness: a pass was interrupted after its POST created the record (the row
\* is still syncing) and a later pass has gone through its candidates.
C3_Witness ==
    /\ sync.pc = "drain_fetch"
    /\ \E m \in missing : /\ m.sync_status = "syncing"
                           /\ Count(remoteCreated, m.uid) = 1
                           /\ Count(syncPosts, m.uid) = 1

\* C4: once the remote stays reachable (and the process is no longer restarted)
\* every unsynced offline entry is eventually gone from its student, and an entry
\* disappears only by promotion to day{N} = True or after a policy rejection.
C4_OfflineEntryReconciles ==
    /\ (<>[]remoteUp /\ <>[][~Interrupted]_vars) =>
          \A sid \in StudentIds, n \in DayNumbers :
              <>~OfflineUnsynced(students, sid, n)
    /\ [][\A sid \in StudentIds, n \in DayNumbers :
             (OfflineUnsynced(students, sid, n) /\ ~OfflineUnsynced(students', sid, n))
                => (Validated(students', sid, n) \/ sync.resp = "policy")]_vars

\* C5: when the POST of the drain fails at the transport level, the save that
\* follows leaves the offline entry in the stored attendance map, unchanged.
C5_TransportFailureKeepsEntry ==
    [][(sync.pc = "drain_save" /\ sync.resp = "transport")
          => StoreHas(students', sync.dcur.id, Head(sync.dkeys))]_vars

\* C6: when a capture loop in online mode has handled a swipe of a locally known
\* student whose validation POST failed at the transport level, the student holds
\* an offline entry with the timestamp of the swipe and synced = False, and no
\* REJECTED message was broadcast for it.
C6_TransportFailureRecordedOffline ==
    \A d \in Devices :
        (cap[d].pc = "listen" /\ cap[d].online /\ cap[d].resp = "transport"
            /\ cap[d].student # NoStudent)
        => /\ \E s \in students : s.id = cap[d].student.id /\
                 \E e \in s.attendance :
                     e.off /\ e.val = OfflineValue(cap[d].ts, d)
           /\ DeviceBroadcast("REJECTED", cap[d].uid, cap[d].ts, d) \notin broadcasts

\* C7: when an approve verdict on a pending decision returns, exactly one POST
\* with assistant_approved was sent for the decision, the student holds the
\* validated key day{N} = True, the decision is no longer pending and ASSISTANT
\* APPROVED was broadcast.
C7_ApproveEffects ==
    [][\A v \in Verdicts :
          (vd[v].pc # "done" /\ vd'[v].pc = "done" /\ vd'[v].decision = "approve"
              /\ vd'[v].result # "not_found")
          => /\ Count(approvedPosts', vd'[v].data.id) = 1
             /\ Validated(students', vd'[v].data.student.id, vd'[v].dayn)
             /\ ~IsPending(pending', vd'[v].data.id)
             /\ Broadcast("ASSISTANT_APPROVED", vd'[v].data.uid, vd'[v].data.ts)
                    \in broadcasts']_vars

\* C8: when a verdict on a pending decision returns, whatever the outcome of its
\* side effects, the decision id is no longer in the pending map.
C8_VerdictRemovesDecision ==
    [][\A v \in Verdicts :
          (vd[v].pc # "done" /\ vd'[v].pc = "done" /\ vd'[v].result # "not_found")
          => ~IsPending(pending', vd'[v].data.id)]_vars

\* C9: the value of the student_sequence counter never decreases.
C9_CounterNeverDecreases ==
    [][CounterValue' >= CounterValue]_vars

\* C10: when a registration completes successfully (its counter increment done),
\* the Student with the registered uid is in the local store.
C10_IncrementOnlyAfterStore ==
    \A r \in Reqs : reg[r].pc = "done" => \E s \in students : s.uid = reg[r].uid

\* C15: when the capture task of a device ends because its driver raised, that
\* device's status becomes error, the step changes no other device's task and
\* leaves the running flag and the task table as they were; and while no stop
\* is requested, a task listening next to an ended one still finds the
\* registry running and can take its next capture event.
C15_DeviceIsolation ==
    /\ [][\A a \in Devices :
            (cap[a].pc = "listen" /\ cap'[a].pc = "ended") =>
                /\ devStatus'[a] = "error"
                /\ \A b \in Devices \ {a} : cap'[b] = cap[b]
                /\ isRunning' = isRunning
                /\ captureTasks' = captureTasks]_vars
    /\ [](\A a \in Devices : \A b \in Devices \ {a} :
            (cap[a].pc = "ended" /\ cap[b].pc = "listen" /\ stop.pc = "idle") =>
                /\ IsCaptureRunning
                /\ capCount < MaxCaptures =>
                      ENABLED (\E u \in CaptureUids : CapEvent(b, u)))

\* C15 witness: device 1's task has ended in error and device 2's task is in
\* the middle of handling a capture, the running flag still set
C15_Witness ==
    /\ cap[1].pc = "ended" /\ devStatus[1] = "error"
    /\ cap[2].pc = "save_online" /\ devStatus[2] = "online"
    /\ isRunning /\ captureTasks = Devices

\* GET /fingerprint/attendance-status: "active_tasks": len(capture_tasks)
ActiveTasks == Cardinality(captureTasks)

LiveTasks == {d \in Devices : Live(d)}

\* C16: in every state in which no stop request is in progress, the registry's
\* is_running query is true exactly when at least one capture task is live, and
\* the reported active-task count is the number of live capture tasks.
C16_RunningIffLive ==
    stop.pc = "idle" =>
        /\ IsCaptureRunning <=> LiveTasks # {}
        /\ ActiveTasks = Cardinality(LiveTasks)

\* C17: while a live capture task holds the connection of its device, no step
\* opens another connection on that device, replaces the registry's connection
\* of that device or closes it.
C17_DeviceExclusive ==
    [][\A d \in Devices :
          (Live(d) /\ devConn[d] = "capture") => devConn'[d] = "capture"]_vars

\* the capture device d handled last was recorded: saved and announced
Recorded(d) ==
    \E kind \in {"APPROVED", "OFFLINE_CAPTURED"} :
        DeviceBroadcast(kind, cap[d].uid, cap[d].ts, d) \in broadcasts

\* C18: when each of the two devices has handled one capture, both of the same
\* uid and both recorded, and nothing else wrote the student, the stored
\* attendance map has two entries more than it had before the first of them:
\* each loop's copy holds one entry more than the map it read, so the stored
\* map holds one entry more than the smaller copy.
C18_BothCapturesAddEntry ==
    (/\ capCount = 2 /\ vdCount = 0
     /\ \A d \in Devices : cap[d].pc = "listen" /\ cap[d].obj # 0 /\ Recorded(d)
     /\ cap[1].uid = cap[2].uid)
    => \E s \in students :
          /\ s.uid = cap[1].uid
          /\ \A d \in Devices :
                Cardinality(s.attendance) >= Cardinality(cap[d].student.attendance)
          /\ \E d \in Devices :
                Cardinality(s.attendance) = Cardinality(cap[d].student.attendance) + 1

\* what the answered validation of device d's capture must do when the answers
\* in escalated go to the operator and every other rejection is refused
ValidationEffects(d, escalated) ==
    LET c == cap[d]
        answer == cap'[d].resp
        id == DecisionId(c.uid, c.ts)
    IN  /\ answer \in escalated =>
              /\ Cardinality({p \in pending' : p.id = id}) = 1
              /\ \E p \in pending' : p.id = id /\ p.uid = c.uid /\ p.ts = c.ts
              /\ {p \in pending' : p.id # id} = {p \in pending : p.id # id}
              /\ DeviceBroadcast("DECISION_REQUEST", c.uid, c.ts, d) \in broadcasts'
              /\ students' = students
              /\ cap'[d].pc = "listen"
        /\ answer \in ({"policy", "not_allowed", "error", "transport"} \ escalated) =>
              /\ pending' = pending
              /\ DeviceBroadcast("REJECTED", c.uid, c.ts, d) \in broadcasts'
              /\ students' = students
              /\ cap'[d].pc = "listen"

C21_FreshProbePerCapture ==
    [][\A d \in Devices :
          (cap[d].pc = "find" /\ cap'[d].pc # "find") =>
              /\ remoteUp => cap'[d].pc = "validate"
              /\ (~remoteUp /\ FindStudent(cap[d].uid) # NoStudent) =>
                    cap'[d].pc = "save_offline"]_vars

\* the request fell back: its probe found the remote, a later request did not
FellBack(r) == reg[r].probe /\ ~reg[r].online

Blacklisted(r) == reg[r].pc = "error" /\ reg[r].err = "blacklist"

\* the effects C23 names other than the counter: the step that takes the
\* blacklist answer visits every device and writes nothing to the store, and
\* the failed request has left no Student and no MissingStudent of its uid
BlacklistCleanup ==
    /\ [][\A r \in Reqs :
            (reg[r].pc = "post_remote" /\ Blacklisted(r)') =>
                /\ \E R \in SUBSET Devices :
                      /\ devStatus' = DevStatusAfterTouch(Devices, R)
                      /\ devConn' = DevConnAfterTouch(Devices, R)
                /\ students' = students /\ missing' = missing]_vars
    /\ [](\A r \in Reqs : Blacklisted(r) =>
            /\ \A s \in students : s.uid = reg[r].uid => s.id < reg[r].id0
            /\ \A x \in missing : x.uid = reg[r].uid => x.id < reg[r].id0)

C24_PromotionKeepsKeyCount ==
    [][(sync.pc = "drain" /\ sync'.pc = "drain_save" /\ sync'.resp = "ok") =>
          Cardinality(sync'.dcur.attendance) = Cardinality(sync.dcur.attendance)]_vars

\* two queued students whose rows are in any state a row can be left in
RowStates == {<<"pending", 0>>, <<"synced", 1>>, <<"failed", MaxSyncAttempts>>}

InitCleanup ==
    /\ \E st \in [1..2 -> RowStates], att \in InitAttendances :
          /\ students = {[id |-> 2 * i - 1, uid |-> InitialCounterValue + i,
                          student_id |-> ToString(InitialCounterValue + i),
                          attendance |-> IF i = 1 THEN att ELSE {}] : i \in 1..2}
          /\ missing = {[NewMissingStudent(2 * i, InitialCounterValue + i,
                                            ToString(InitialCounterValue + i))
                            EXCEPT !.sync_status = st[i][1],
                                   !.sync_attempts = st[i][2]] : i \in 1..2}
          /\ remoteStudents = {InitialCounterValue + i :
                                  i \in {j \in 1..2 : st[j][1] = "synced"}}
    /\ counter = <<InitialCounterValue + 2>>
    /\ nextId = 5
    /\ remoteUp \in BOOLEAN
    /\ remoteCreated = << >>
    /\ reg = [r \in Reqs |-> IdleReq]
    /\ regCount = 0
    /\ sync = IdleSync
    /\ syncPosts = << >>
    /\ cap = [d \in Devices |-> IdleCap]
    /\ capCount = 0
    /\ sessions = {}
    /\ vd = [v \in Verdicts |-> IdleVerdict]
    /\ vdCount = 0
    /\ pending = {}
    /\ broadcasts = {}
    /\ approvedPosts = << >>
    /\ now = 1
    /\ activeConnections = << >>
    /\ sockets = [s \in Sockets |-> NewSocket]
    /\ bc = [c \in Callers |-> IdleBroadcast]
    /\ lastCall = NoCall
    /\ is_attendance_running = FALSE
    /\ attendance_task = "none"
    /\ isRunning = FALSE
    /\ captureTasks = {}
    /\ devStatus = [d \in Devices |-> "offline"]
    /\ devConn = [d \in Devices |-> "none"]
    /\ stop = IdleStop

\* the sync worker next to the cleanup route
NextCleanup ==
    \/ SyncStep
    \/ CleanupSyncedStudents
    \/ NetChange

SpecCleanup == InitCleanup /\ [][NextCleanup]_vars

\* a step that is a cleanup pass: the worker's, or the route's
CleanupPass ==
    \/ sync.pc = "loop" /\ sync.cands = << >> /\ sync'.pc = "drain_fetch"
    \/ sync' = sync /\ missing' # missing

StartWhileStopping ==
    /\ stop.pc = "cancel"
    /\ StartAttendance
    /\ \A d \in Devices : (Live(d) \/ d \in stop.todo) => d \notin captureTasks'

NextStop ==
    \/ StartAttendance /\ stop.pc = "idle"
    \/ StartWhileStopping
    \/ StopStep
    \/ \E d \in Devices : CapStep(d) \/ CapFault(d) \/ CapBreak(d)

SpecStop == InitDev /\ [][NextStop]_vars

\* C26: when stop_all returns no capture task is live, the task table is empty
\* and every device connection is null; and a stop requested while the registry
\* is not running starts nothing, so the registry stays as it is.
C26_StopAllClearsRegistry ==
    [][/\ (stop.pc = "cancel" /\ stop'.pc = "idle") =>
             /\ \A d \in Devices : ~Live(d)'
             /\ captureTasks' = {}
             /\ \A d \in Devices : devConn'[d] = "none"
       /\ (stop.pc = "idle" /\ ~isRunning) =>
             (stop'.pc = "idle" \/ <<isRunning, captureTasks, devStatus, devConn>>' =
                                     <<isRunning, captureTasks, devStatus, devConn>>)]_vars

\* the capture loop of device 1 has asked for a decision on one capture of each
\* uid of U (uid 10019 is a local student, the others are unknown) and has been
\* stopped; the decisions wait in the pending map
InitVerdict ==
    /\ \E att \in InitAttendances, U \in SUBSET CaptureUids :
          LET s == [NewStudent(1, InitialCounterValue + 1,
                               ToString(InitialCounterValue + 1))
                      EXCEPT !.attendance = att]
          IN  /\ U # {}
              /\ students = {s}
              /\ pending = {[id |-> DecisionId(u, 1), uid |-> u, ts |-> 1,
                             student |-> IF u = s.uid THEN s ELSE NoStudent,
                             device |-> 1, obj |-> u - InitialCounterValue] : u \in U}
              /\ broadcasts = {DeviceBroadcast("DECISION_REQUEST", u, 1, 1) : u \in U}
              /\ capCount = Cardinality(U)
              /\ sessions = {NewSession(u - InitialCounterValue, u, 1) : u \in U}
    /\ remoteStudents = {InitialCounterValue + 1}
    /\ counter = <<InitialCounterValue + 1>>
    /\ nextId = 3
    /\ missing = {}
    /\ remoteUp \in BOOLEAN
    /\ remoteCreated = << >>
    /\ reg = [r \in Reqs |-> IdleReq]
    /\ regCount = 0
    /\ sync = IdleSync
    /\ syncPosts = << >>
    /\ cap = [d \in Devices |-> IdleCap]
    /\ vd = [v \in Verdicts |-> IdleVerdict]
    /\ vdCount = 0
    /\ approvedPosts = << >>
    /\ now = 1
    /\ activeConnections = << >>
    /\ sockets = [s \in Sockets |-> NewSocket]
    /\ bc = [c \in Callers |-> IdleBroadcast]
    /\ lastCall = NoCall
    /\ is_attendance_running = FALSE
    /\ attendance_task = "none"
    /\ isRunning = FALSE
    /\ captureTasks = {}
    /\ devStatus = [d \in Devices |-> "offline"]
    /\ devConn = [d \in Devices |-> "none"]
    /\ stop = IdleStop

\* the operator's verdicts, overlapping at their awaits
NextVerdict ==
    \/ \E v \in Verdicts : VerdictStep(v)
    \/ NetChange

SpecVerdict == InitVerdict /\ [][NextVerdict]_vars

\* C27: a reject verdict on a decision that is pending leaves the students'
\* attendance maps and the decision's snapshot as they are, sends no approved
\* POST, broadcasts ASSISTANT REJECTED and removes the decision from the map.
C27_RejectEffects ==
    [][\A v \in Verdicts :
          /\ (vd[v].pc = "idle" /\ vd'[v].pc = "reject") =>
                /\ IsPending(pending, vd'[v].data.id)
                /\ UNCHANGED <<students, approvedPosts, pending, broadcasts>>
          /\ (vd[v].pc = "reject" /\ vd'[v].pc # "reject") =>
                /\ UNCHANGED <<students, approvedPosts>>
                /\ Broadcast("ASSISTANT_REJECTED", vd[v].data.uid, vd[v].data.ts)
                      \in broadcasts'
                /\ ~IsPending(pending', vd[v].data.id)
                /\ \A p \in pending : p.id # vd[v].data.id => p \in pending']_vars

\* a reject has been processed: broadcast, decision gone, nothing posted
C27_Witness ==
    \E v \in Verdicts :
        /\ vd[v].pc = "done" /\ vd[v].decision = "reject"
        /\ vd[v].result = "success"
        /\ Broadcast("ASSISTANT_REJECTED", vd[v].data.uid, vd[v].data.ts)
              \in broadcasts
        /\ ~IsPending(pending, vd[v].data.id)
        /\ approvedPosts = << >>

\* C28: a verdict for an id that is not in the pending map returns the
\* not-found error and changes nothing: no attendance entry, no approved POST,
\* no broadcast, the pending map as it was.
C28_UnknownVerdictNoEffect ==
    [][\A v \in Verdicts :
          /\ (vd[v].pc = "idle" /\ vd'[v].result = "not_found") =>
                /\ vd'[v].pc = "done"
                /\ UNCHANGED <<students, approvedPosts, broadcasts, pending>>
          /\ (vd[v].result = "not_found" /\ vd'[v] # vd[v]) =>
                /\ vd'[v] = IdleVerdict
                /\ UNCHANGED <<students, approvedPosts, broadcasts, pending>>]_vars

\* a verdict for an id resolved before (rejected and removed) came back not found
C28_Witness ==
    \E v \in Verdicts :
        /\ vd[v].pc = "done" /\ vd[v].result = "not_found"
        /\ pending = {}
        /\ \E b \in broadcasts : b.kind = "ASSISTANT_REJECTED"

InitWs ==
    /\ counter = <<InitialCounterValue>>
    /\ students = {}
    /\ missing = {}
    /\ nextId = 1
    /\ remoteUp = TRUE
    /\ remoteStudents = {}
    /\ remoteCreated = << >>
    /\ reg = [r \in Reqs |-> IdleReq]
    /\ regCount = 0
    /\ sync = IdleSync
    /\ syncPosts = << >>
    /\ cap = [d \in Devices |-> IdleCap]
    /\ capCount = 0
    /\ sessions = {}
    /\ vd = [v \in Verdicts |-> IdleVerdict]
    /\ vdCount = 0
    /\ pending = {}
    /\ broadcasts = {}
    /\ approvedPosts = << >>
    /\ now = 1
    /\ isRunning = FALSE
    /\ captureTasks = {}
    /\ devStatus = [d \in Devices |-> "offline"]
    /\ devConn = [d \in Devices |-> "none"]
    /\ stop = IdleStop
    /\ activeConnections = << >>
    /\ sockets = [s \in Sockets |-> NewSocket]
    /\ bc = [c \in Callers |-> IdleBroadcast]
    /\ lastCall = NoCall
    /\ is_attendance_running = FALSE
    /\ attendance_task = "none"

NextWs ==
    \/ \E s \in Sockets : WsConnect(s) \/ WsClose(s) \/ WsDisconnect(s)
    \/ \E c \in Callers : BroadcastStep(c)

SpecWs == InitWs /\ [][NextWs]_vars

\* C30: when a broadcast returns, every connection whose send raised is out of
\* the subscriber list, the broadcast has removed no connection whose send
\* succeeded and each of those was sent the message exactly once, and every
\* connection of the list the broadcast started with was tried, whatever
\* happened to the ones before it.
C30_BroadcastDelivery ==
    [][\A c \in Callers :
          (bc[c].pc = "send" /\ bc'[c].pc = "idle") =>
              /\ \A s \in Members(bc[c].failed) :
                    /\ s \notin Members(activeConnections')
                    /\ Times(sockets'[s].got, bc[c].msg) = 0
              /\ \A s \in bc[c].sent :
                    /\ s \in Members(activeConnections) =>
                          s \in Members(activeConnections')
                    /\ Times(sockets'[s].got, bc[c].msg) = 1
              /\ bc[c].sent \cup Members(bc[c].failed) = Members(bc[c].copy)
              /\ bc[c].sent \cap Members(bc[c].failed) = {}
              /\ activeConnections' =
                    Without(activeConnections, Members(bc[c].failed))]_vars

\* a broadcast has returned after the first connection of its list failed and
\* the second was served: the first is out of the list, the second is in it
C30_Witness ==
    \E c \in Callers :
        /\ bc[c].pc = "idle" /\ Len(bc[c].copy) = 2
        /\ bc[c].failed = <<bc[c].copy[1]>>
        /\ bc[c].sent = {bc[c].copy[2]}
        /\ activeConnections = <<bc[c].copy[2]>>
        /\ Times(sockets[bc[c].copy[2]].got, bc[c].msg) = 1

\* the counter functions called one after the other, from an empty store or
\* from a counter row left by earlier requests
InitCalls ==
    /\ counter \in {<< >>} \cup {<<v>> : v \in InitValues}
    /\ students = {}
    /\ missing = {}
    /\ nextId = 1
    /\ remoteUp = TRUE
    /\ remoteStudents = {}
    /\ remoteCreated = << >>
    /\ reg = [r \in Reqs |-> IdleReq]
    /\ regCount = 0
    /\ sync = IdleSync
    /\ syncPosts = << >>
    /\ cap = [d \in Devices |-> IdleCap]
    /\ capCount = 0
    /\ sessions = {}
    /\ vd = [v \in Verdicts |-> IdleVerdict]
    /\ vdCount = 0
    /\ pending = {}
    /\ broadcasts = {}
    /\ approvedPosts = << >>
    /\ now = 1
    /\ isRunning = FALSE
    /\ captureTasks = {}
    /\ devStatus = [d \in Devices |-> "offline"]
    /\ devConn = [d \in Devices |-> "none"]
    /\ stop = IdleStop
    /\ activeConnections = << >>
    /\ sockets = [s \in Sockets |-> NewSocket]
    /\ bc = [c \in Callers |-> IdleBroadcast]
    /\ lastCall = NoCall
    /\ is_attendance_running = FALSE
    /\ attendance_task = "none"

NextCalls ==
    \/ CounterPeek
    \/ CounterIncrement
    \/ \E v \in CounterArgs : CounterSync(v)
    \/ \E v \in CounterArgs : CounterInitialize(v)

SpecCalls == InitCalls /\ [][NextCalls]_vars

C33_WriteAddsNewKey ==
    [][/\ \A d \in Devices :
            /\ (cap[d].pc = "find" /\ cap'[d].pc = "save_offline") =>
                  LET before == FindStudent(cap[d].uid).attendance
                  IN  /\ ~HasKey(before, DayIndex(before), TRUE)
                      /\ Cardinality(cap'[d].student.attendance) =
                            Cardinality(before) + 1
            /\ (cap[d].pc = "validate" /\ cap'[d].pc = "save_online") =>
                  LET before == cap[d].student.attendance
                  IN  /\ ~HasKey(before, DayIndex(before), FALSE)
                      /\ Cardinality(cap'[d].student.attendance) =
                            Cardinality(before) + 1
       /\ \A v \in Verdicts :
            (vd[v].pc = "idle" /\ vd'[v].pc = "save") =>
                \E p \in pending :
                    /\ p.id = vd'[v].data.id
                    /\ ~HasKey(p.student.attendance,
                               DayIndex(p.student.attendance), FALSE)
                    /\ Cardinality(vd'[v].data.student.attendance) =
                          Cardinality(p.student.attendance) + 1]_vars

\* C34: the save that ends one step of the offline-attendance drain keeps every
\* entry the store holds for that student under another day number than the
\* one being drained, also the entries a capture saved after the drain read
\* the student.
C34_DrainKeepsCapturedEntries ==
    [][(sync.pc = "drain_save" /\ sync'.pc = "drain") =>
          \A s \in students :
              s.id = sync.dcur.id =>
                  \E t \in students' :
                      /\ t.id = s.id
                      /\ \A e \in s.attendance :
                            e.n # Head(sync.dkeys).n => e \in t.attendance]_vars

\* a verdict that has passed the pending check and has not returned yet
InFlight(w) == vd[w].pc \notin {"idle", "done"}

\* C35: of two verdicts processed at the same time for one decision id at most
\* one takes effect: no attendance entry is added and no approved POST is sent
\* for an id while another verdict in flight has already added or sent one for
\* it, and a verdict that finds the id removed when it comes to delete it ends
\* with the not-found result.
C35_OneVerdictTakesEffect ==
    [][\A v \in Verdicts :
          /\ (vd[v].pc = "idle" /\ vd'[v].pc = "save") =>
                ~\E w \in Verdicts \ {v} :
                    /\ InFlight(w) /\ vd[w].data.id = vd'[v].data.id
                    /\ vd[w].dayn # 0
          /\ (vd[v].pc = "post" /\ Len(approvedPosts') > Len(approvedPosts)) =>
                ~\E w \in Verdicts \ {v} :
                    /\ InFlight(w) /\ vd[w].data.id = vd[v].data.id
                    /\ vd[w].pc = "approved"
          /\ (vd[v].pc \in {"approved", "reject"} /\ vd'[v].pc = "done"
                /\ ~IsPending(pending, vd[v].data.id)) =>
                vd'[v].result = "not_found"]_vars

\* C36: the save of an approved decision (the first verdict the operator
\* sends, so that no other verdict has touched the decision) leaves in the store every attendance
\* entry the store held for the student just before it, next to a validated
\* day key that was not there.
C36_ApproveKeepsStoredEntries ==
    [][\A v \in Verdicts :
          (vd[v].pc = "save" /\ vd'[v].pc = "post" /\ vdCount = 1) =>
              \A s \in students :
                  s.id = vd[v].data.student.id =>
                      \E t \in students' :
                          /\ t.id = s.id
                          /\ s.attendance \subseteq t.attendance
                          /\ \E e \in t.attendance \ s.attendance :
                                ~e.off /\ e.val = ValTrue]_vars

\* the start and stop routes with both capture modes: the registry's tasks and
\* the single-device fallback task
NextModes ==
    \/ StartAttendance /\ stop.pc = "idle"
    \/ StartWhileStopping
    \/ StopStep
    \/ \E d \in Devices : CapStart(d) \/ CapFault(d) \/ CapBreak(d)
    \/ SingleConnect
    \/ SingleFault

SpecModes == InitDev /\ [][NextModes]_vars

\* the single-device capture is active: its flag is set and its task not done
SingleActive == is_attendance_running /\ attendance_task \in {"created", "listen"}

\* C37: the multi-device capture and the single-device fallback capture are
\* never active together, and no step starts a capture mode while one of the
\* two is active (such a start request is refused).
C37_ModesExclusive ==
    /\ [](~(IsCaptureRunning /\ SingleActive))
    /\ [][(IsCaptureRunning \/ SingleActive) =>
             /\ ~(isRunning' /\ ~isRunning)
             /\ ~(is_attendance_running' /\ ~is_attendance_running)]_vars

InitTagged == InitCap /\ \A s \in students : s.attendance = {}

\* every writer of the attendance map side by side: the capture task of one
\* device reporting the registered student, the verdicts handled by one
\* coroutine and the drain of the sync worker
NextTagged ==
    \/ CapStart(1)
    \/ \E s \in students : CapEvent(1, s.uid)
    \/ CapFind(1)
    \/ CapValidate(1)
    \/ CapSaveOnline(1)
    \/ CapSaveOffline(1)
    \/ VerdictStep(1)
    \/ SyncProbe
    \/ SyncQuery
    \/ SyncCleanup
    \/ DrainFetch
    \/ DrainNextStudent
    \/ DrainPost
    \/ DrainSave
    \/ SyncSleep
    \/ NetChange

SpecTagged == InitTagged /\ [][NextTagged]_vars

\* an attendance value is the record an offline capture writes
IsOfflineRecord(val) == {"status", "timestamp", "synced"} \subseteq DOMAIN val

\* C40: in every stored attendance map a key carries the _offline suffix
\* exactly when its value is a record with status, timestamp and synced, and
\* every key without the suffix has the value true.
C40_KeysMatchValues ==
    \A s \in students : \A e \in s.attendance :
        /\ e.off <=> IsOfflineRecord(e.val)
        /\ ~e.off => e.val = ValTrue

\* the entry of the only capture, made while the remote was unreachable, has
\* been promoted by the sync worker: the map holds one key, without the suffix
\* and with the value true
C40_Witness ==
    /\ capCount = 1
    /\ \E b \in broadcasts : b.kind = "OFFLINE_CAPTURED"
    /\ sync.pc = "drain"
    /\ \E s \in students :
          /\ Cardinality(s.attendance) = 1
          /\ \A e \in s.attendance : ~e.off /\ e.val = ValTrue

\* the sync worker keeps being scheduled
SpecSyncFair == SpecSync /\ WF_vars(SyncStep)

\* the same for the worker of a process that is not restarted
SpecSyncRun == InitSync /\ [][NextSyncRun]_vars /\ WF_vars(SyncStep)

====
